---- MODULE Spec2Model ----
(***************************************************************************)
(* Contractor search and ranking of trade-estimator-backend.               *)
(*                                                                         *)
(* The repository holds five copies of the POST /api/search-contractors    *)
(* handler, one per deployment variant:                                    *)
(*   "server"   src/server.js              lines  151-317                  *)
(*   "part002"  src/unnamed/part_002       lines  435-652                  *)
(*              (src/unnamed/part_003 lines 429-646 is the same code)      *)
(*   "part003b" src/unnamed/part_003       lines 1326-1610                 *)
(*   "part003c" src/unnamed/part_003       lines 2214-2437                 *)
(*   "part004"  src/unnamed/part_004       lines  189-470                  *)
(*                                                                         *)
(* Numbers: a rating is kept in tenths (4.8 is 48); a score is kept in     *)
(* millionths (Micro) until Math.round or toFixed(1) is applied.           *)
(* Strings are TLA+ strings; a character is a string of length 1.          *)
(* A JavaScript object is a record; a property that is undefined is a      *)
(* field that is absent from the record's DOMAIN.                          *)
(***************************************************************************)
EXTENDS Integers, Sequences, FiniteSets, TLC

(***************************************************************************)
(* Bounds of the model.                                                    *)
(***************************************************************************)
\* longest places response enumerated over the catalogue of places
MaxPlaces == 6

(***************************************************************************)
(* JavaScript helpers.                                                     *)
(***************************************************************************)
Micro == 1000000

Min(a, b) == IF a <= b THEN a ELSE b

\* JSON null (part003c writes `|| null`)
Null == "<null>"

\* obj.f where an absent property reads as undefined
Has(obj, f) == f \in DOMAIN obj

\* `v || 0` on a numeric property: undefined and 0 both give 0
OrZero(obj, f) == IF Has(obj, f) THEN obj[f] ELSE 0

\* truthiness of a string-valued property: undefined, null and "" are falsy
TruthyStr(obj, f) == Has(obj, f) /\ obj[f] # "" /\ obj[f] # Null

\* truthiness of a boolean-valued property: undefined is falsy
TruthyBool(obj, f) == Has(obj, f) /\ obj[f] = TRUE

\* String.prototype.toLowerCase on one character
LowerChar(c) ==
  CASE c = "A" -> "a" [] c = "B" -> "b" [] c = "C" -> "c" [] c = "D" -> "d"
    [] c = "E" -> "e" [] c = "F" -> "f" [] c = "G" -> "g" [] c = "H" -> "h"
    [] c = "I" -> "i" [] c = "J" -> "j" [] c = "K" -> "k" [] c = "L" -> "l"
    [] c = "M" -> "m" [] c = "N" -> "n" [] c = "O" -> "o" [] c = "P" -> "p"
    [] c = "Q" -> "q" [] c = "R" -> "r" [] c = "S" -> "s" [] c = "T" -> "t"
    [] c = "U" -> "u" [] c = "V" -> "v" [] c = "W" -> "w" [] c = "X" -> "x"
    [] c = "Y" -> "y" [] c = "Z" -> "z" [] OTHER -> c

RECURSIVE ToLowerCase(_)
ToLowerCase(s) ==
  IF Len(s) = 0 THEN ""
  ELSE LowerChar(SubSeq(s, 1, 1)) \o ToLowerCase(SubSeq(s, 2, Len(s)))

\* String.prototype.includes: the empty string is included in every string
Includes(hay, needle) ==
  IF Len(needle) = 0 THEN TRUE
  ELSE \E i \in 1..(Len(hay) - Len(needle) + 1) :
         SubSeq(hay, i, i + Len(needle) - 1) = needle

\* String.prototype.split(' '): cuts at every single space, so two adjacent
\* spaces, a leading or a trailing space each produce an empty token
RECURSIVE SplitFrom(_, _, _)
SplitFrom(s, i, cur) ==
  IF i > Len(s) THEN <<cur>>
  ELSE IF SubSeq(s, i, i) = " " THEN <<cur>> \o SplitFrom(s, i + 1, "")
  ELSE SplitFrom(s, i + 1, cur \o SubSeq(s, i, i))

Split(s) == SplitFrom(s, 1, "")

\* Array.prototype.join(' ')
RECURSIVE Join(_)
Join(arr) ==
  IF Len(arr) = 0 THEN ""
  ELSE IF Len(arr) = 1 THEN arr[1]
  ELSE arr[1] \o " " \o Join(Tail(arr))

\* Math.log10(m) in millionths, rounded down, for m = 1..101
Log10Table ==
  << 0, 301029, 477121, 602059, 698970, 778151, 845098, 903089, 954242,
     1000000, 1041392, 1079181, 1113943, 1146128, 1176091, 1204119, 1230448,
     1255272, 1278753, 1301029, 1322219, 1342422, 1361727, 1380211, 1397940,
     1414973, 1431363, 1447158, 1462397, 1477121, 1491361, 1505149, 1518513,
     1531478, 1544068, 1556302, 1568201, 1579783, 1591064, 1602059, 1612783,
     1623249, 1633468, 1643452, 1653212, 1662757, 1672097, 1681241, 1690196,
     1698970, 1707570, 1716003, 1724275, 1732393, 1740362, 1748188, 1755874,
     1763427, 1770852, 1778151, 1785329, 1792391, 1799340, 1806179, 1812913,
     1819543, 1826074, 1832508, 1838849, 1845098, 1851258, 1857332, 1863322,
     1869231, 1875061, 1880813, 1886490, 1892094, 1897627, 1903089, 1908485,
     1913813, 1919078, 1924279, 1929418, 1934498, 1939519, 1944482, 1949390,
     1954242, 1959041, 1963787, 1968482, 1973127, 1977723, 1982271, 1986771,
     1991226, 1995635, 2000000, 2004321 >>

\* number of decimal digits of m, less one: the integer part of log10(m)
RECURSIVE Log10Floor(_)
Log10Floor(m) == IF m < 10 THEN 0 ELSE 1 + Log10Floor(m \div 10)

\* Math.log10(m) in millionths.  Beyond the table only the integer part is
\* kept: it is at least 2, which is all that Math.min(log10/2, 1) looks at.
Log10Micro(m) ==
  IF m \in DOMAIN Log10Table THEN Log10Table[m] ELSE Log10Floor(m) * Micro

\* Math.round of a non-negative value in millionths (ties go up)
MathRound(x) == (x + (Micro \div 2)) \div Micro

\* Number.prototype.toFixed(1) of a non-negative value in millionths: the
\* value in tenths ("21.3" is 213)
ToFixed1(x) == (x + (Micro \div 20)) \div (Micro \div 10)

(***************************************************************************)
(* Thresholds of the handlers (ratings in tenths).                         *)
(***************************************************************************)
\* server.js
MINIMUM_RATING == 40
MINIMUM_REVIEWS == 5
\* part_002
MIN_RATING == 40
MIN_REVIEWS == 10
\* part_003 (second handler) and part_004
STRICT_MIN_RATING == 40
STRICT_MIN_REVIEWS == 5
RELAXED_MIN_RATING == 35
RELAXED_MIN_REVIEWS == 3
\* part_003 (third handler): literals of the two filter callbacks
THIRD_MIN_RATING == 35
THIRD_MIN_REVIEWS == 5
THIRD_RELAXED_RATING == 30
\* `allContractors.length >= 3`, `strictContractors.length < 3`,
\* `contractors.length < 3`
MIN_ACCEPTABLE == 3
\* `.slice(0, 5)`
TOP_N == 5

Variants == {"server", "part002", "part003b", "part003c", "part004"}

(***************************************************************************)
(* place -> contractor, the .map callback of each handler.  address,       *)
(* location and priceLevel are copied through by the code and read by no   *)
(* later step; they are left out of the record.                            *)
(***************************************************************************)
NoFields == [f \in {} |-> 0]

\* `g: place.f`: the property g is defined exactly when place.f is
Copy(place, f, g) == IF Has(place, f) THEN g :> place[f] ELSE NoFields

\* `openNow: place.opening_hours?.open_now`
OpenNowOf(place) ==
  IF Has(place, "opening_hours")
  THEN Copy(place.opening_hours, "open_now", "openNow")
  ELSE NoFields

\* `place.formatted_phone_number || place.international_phone_number`
PhoneOrInternational(place) ==
  IF TruthyStr(place, "formatted_phone_number")
  THEN Copy(place, "formatted_phone_number", "phoneNumber")
  ELSE Copy(place, "international_phone_number", "phoneNumber")

MapCommon(place) ==
  [ name         |-> place.name,
    rating       |-> OrZero(place, "rating"),
    totalReviews |-> OrZero(place, "user_ratings_total"),
    types        |-> place.types,
    placeId      |-> place.place_id ]

\* server.js 214-226 and 233-245 (no qualityVerified property)
MapServer(place) ==
  MapCommon(place)
    @@ Copy(place, "formatted_phone_number", "phoneNumber")
    @@ Copy(place, "website", "website")
    @@ OpenNowOf(place)

\* mutant: every contractor is tagged as meeting the strict criteria
MapTagged_AlwaysVerified(place, qv) ==
  MapServer(place) @@ ("qualityVerified" :> TRUE)

\* part_003 1493-1506 and 1526-1539 (part_004 344-357 and 377-390)
MapTagged(place, qv) == MapServer(place) @@ ("qualityVerified" :> qv)

\* part_002 524-537 and 554-567
MapPart002(place, qv) ==
  MapCommon(place)
    @@ PhoneOrInternational(place)
    @@ Copy(place, "website", "website")
    @@ OpenNowOf(place)
    @@ ("qualityVerified" :> qv)

\* part_003 2331-2342 and 2352-2363: `|| null`, `|| false`, no tag
MapThird(place) ==
  MapCommon(place)
    @@ ("phoneNumber" :> IF TruthyStr(place, "formatted_phone_number")
                         THEN place.formatted_phone_number ELSE Null)
    @@ ("website" :> IF TruthyStr(place, "website")
                     THEN place.website ELSE Null)
    @@ ("openNow" :> (Has(place, "opening_hours")
                      /\ TruthyBool(place.opening_hours, "open_now")))

(***************************************************************************)
(* The filter callbacks.                                                   *)
(***************************************************************************)
\* mutant: `>` where the code has `>=`
PassesTier_StrictlyGreater(place, minRating, minReviews) ==
  /\ OrZero(place, "rating") > minRating
  /\ OrZero(place, "user_ratings_total") > minReviews

\* `rating >= minRating && reviews >= minReviews` after `|| 0`
PassesTier(place, minRating, minReviews) ==
  /\ OrZero(place, "rating") >= minRating
  /\ OrZero(place, "user_ratings_total") >= minReviews

\* part_003 2326-2330: `place.rating && place.rating >= 3.5` and the same
\* for user_ratings_total
PassesThird(place) ==
  /\ Has(place, "rating") /\ place.rating # 0
  /\ place.rating >= THIRD_MIN_RATING
  /\ Has(place, "user_ratings_total") /\ place.user_ratings_total # 0
  /\ place.user_ratings_total >= THIRD_MIN_REVIEWS

\* mutant: the second filter asks for more than the first
PassesThirdRelaxed_Stricter(place) ==
  /\ Has(place, "rating") /\ place.rating # 0
  /\ place.rating >= 40

\* part_003 2351: `place.rating && place.rating >= 3.0`
PassesThirdRelaxed(place) ==
  /\ Has(place, "rating") /\ place.rating # 0
  /\ place.rating >= THIRD_RELAXED_RATING

\* mutant: the review count is not looked at
RECURSIVE FilterCandidates_RatingOnly(_, _, _)
FilterCandidates_RatingOnly(results, minRating, minReviews) ==
  IF results = << >> THEN << >>
  ELSE (IF PassesTier(Head(results), minRating, 0)
        THEN << Head(results) >> ELSE << >>)
         \o FilterCandidates_RatingOnly(Tail(results), minRating, minReviews)

\* response.data.results.filter(place => rating >= min && reviews >= min):
\* Array.prototype.filter gives a new array, the kept elements in input order
RECURSIVE FilterCandidates(_, _, _)
FilterCandidates(results, minRating, minReviews) ==
  IF results = << >> THEN << >>
  ELSE (IF PassesTier(Head(results), minRating, minReviews)
        THEN << Head(results) >> ELSE << >>)
         \o FilterCandidates(Tail(results), minRating, minReviews)

\* part_003 2325-2330: results.filter(hasRating && hasReviews)
RECURSIVE FilterThird(_)
FilterThird(results) ==
  IF results = << >> THEN << >>
  ELSE (IF PassesThird(Head(results)) THEN << Head(results) >> ELSE << >>)
         \o FilterThird(Tail(results))

\* part_003 2350-2351: results.filter(place.rating && place.rating >= 3.0)
RECURSIVE FilterThirdRelaxed(_)
FilterThirdRelaxed(results) ==
  IF results = << >> THEN << >>
  ELSE (IF PassesThirdRelaxed(Head(results))
        THEN << Head(results) >> ELSE << >>)
         \o FilterThirdRelaxed(Tail(results))

(***************************************************************************)
(* Match score: the scoredContractors map callback, the same text in all   *)
(* five handlers.  Components are in millionths.                           *)
(***************************************************************************)
\* (contractor.rating / 5) * 35
RatingScore(contractor) == (contractor.rating * 7 * Micro) \div 10

\* mutant: the Math.min(..., 1) is forgotten
ReviewScore_NoCap(contractor) ==
  (Log10Micro(contractor.totalReviews + 1) * 25) \div 2

\* Math.min(Math.log10(contractor.totalReviews + 1) / 2, 1) * 25
ReviewScore(contractor) ==
  (Min(Log10Micro(contractor.totalReviews + 1), 2 * Micro) * 25) \div 2

\* mutant: the types are left out of the searched text
NameAndTypes_NameOnly(contractor) == ToLowerCase(contractor.name)

\* `${contractor.name} ${contractor.types.join(' ')}`.toLowerCase()
NameAndTypes(contractor) ==
  ToLowerCase(contractor.name \o " " \o Join(contractor.types))

\* searchQuery.toLowerCase().split(' ')
JobKeywords(searchQuery) == Split(ToLowerCase(searchQuery))

\* jobKeywords.forEach(keyword => { if (includes) relevanceScore += 5 })
RECURSIVE CountIncluded(_, _)
CountIncluded(hay, keywords) ==
  IF keywords = <<>> THEN 0
  ELSE (IF Includes(hay, Head(keywords)) THEN 5 ELSE 0)
         + CountIncluded(hay, Tail(keywords))

\* mutant: the cap of 20 is forgotten
RelevanceScore_NoCap(contractor, searchQuery) ==
  CountIncluded(NameAndTypes(contractor), JobKeywords(searchQuery)) * Micro

\* relevanceScore = Math.min(relevanceScore, 20)
RelevanceScore(contractor, searchQuery) ==
  Min(CountIncluded(NameAndTypes(contractor), JobKeywords(searchQuery)), 20)
    * Micro

\* mutant: `contractor.openNow !== false ? 10 : 0`
ActiveScore_UnknownIsOpen(contractor) ==
  IF Has(contractor, "openNow") /\ contractor.openNow = FALSE
  THEN 0 ELSE 10 * Micro

\* contractor.openNow ? 10 : 0
ActiveScore(contractor) ==
  IF TruthyBool(contractor, "openNow") THEN 10 * Micro ELSE 0

\* mutant: the phone number is not counted
ProfessionalScore_WebsiteOnly(contractor) ==
  IF TruthyStr(contractor, "website") THEN 5 * Micro ELSE 0

\* if (contractor.website) += 5; if (contractor.phoneNumber) += 5
ProfessionalScore(contractor) ==
  (IF TruthyStr(contractor, "website") THEN 5 * Micro ELSE 0)
    + (IF TruthyStr(contractor, "phoneNumber") THEN 5 * Micro ELSE 0)

\* the running `score` after the five `score +=`
RawScore(contractor, searchQuery) ==
  RatingScore(contractor) + ReviewScore(contractor)
    + RelevanceScore(contractor, searchQuery)
    + ActiveScore(contractor) + ProfessionalScore(contractor)

\* breakdown.x = xScore.toFixed(1): text with one decimal, kept in tenths
ScoreBreakdown(contractor, searchQuery) ==
  [ rating       |-> ToFixed1(RatingScore(contractor)),
    reviews      |-> ToFixed1(ReviewScore(contractor)),
    relevance    |-> ToFixed1(RelevanceScore(contractor, searchQuery)),
    active       |-> ToFixed1(ActiveScore(contractor)),
    professional |-> ToFixed1(ProfessionalScore(contractor)) ]

\* { ...contractor, matchScore: Math.round(score), scoreBreakdown }
Score(contractor, searchQuery) ==
  contractor
    @@ ("matchScore" :> MathRound(RawScore(contractor, searchQuery)))
    @@ ("scoreBreakdown" :> ScoreBreakdown(contractor, searchQuery))

(***************************************************************************)
(* scoredContractors.sort((a, b) => b.matchScore - a.matchScore)           *)
(* Array.prototype.sort is stable (ECMAScript 2019, Node 11 and later):    *)
(* elements that compare equal keep their order.                           *)
(***************************************************************************)
\* mutant: an unstable sort, equal scores end up in reverse order
RECURSIVE InsertByScore_Unstable(_, _)
InsertByScore_Unstable(sorted, c) ==
  IF sorted = <<>> THEN <<c>>
  ELSE IF c.matchScore - Head(sorted).matchScore >= 0
       THEN <<c>> \o sorted
       ELSE <<Head(sorted)>> \o InsertByScore_Unstable(Tail(sorted), c)

\* the comparator's sign: a stays before b unless b.matchScore is larger
RECURSIVE InsertByScore(_, _)
InsertByScore(sorted, c) ==
  IF sorted = <<>> THEN <<c>>
  ELSE IF c.matchScore - Head(sorted).matchScore > 0
       THEN <<c>> \o sorted
       ELSE <<Head(sorted)>> \o InsertByScore(Tail(sorted), c)

\* mutant: the sort is left out
SortByScore_Unsorted(s) == s

RECURSIVE SortByScore(_)
SortByScore(s) ==
  IF s = <<>> THEN <<>>
  ELSE InsertByScore(SortByScore(SubSeq(s, 1, Len(s) - 1)), s[Len(s)])

\* mutant: the slice keeps one element too many
Slice0_OneMore(s, n) == SubSeq(s, 1, Min(n + 1, Len(s)))

\* Array.prototype.slice(0, n)
Slice0(s, n) == SubSeq(s, 1, Min(n, Len(s)))

(***************************************************************************)
(* searchQuery of each handler.                                            *)
(***************************************************************************)
\* jobTypeMapping[jobType][0]: the primary search term of each mapped job
jobTypeMapping ==
  [ x \in { "extension", "loft-conversion", "new-roof", "driveway",
            "painting-room", "wallpapering", "floor-sanding",
            "bathroom-install", "boiler-replacement", "radiator-install",
            "rewire", "consumer-unit", "ev-charger" } |->
      CASE x = "extension"          -> "home extension builder"
        [] x = "loft-conversion"    -> "loft conversion specialist"
        [] x = "new-roof"           -> "roofing contractor"
        [] x = "driveway"           -> "driveway installer"
        [] x = "painting-room"      -> "painter decorator"
        [] x = "wallpapering"       -> "wallpaper installer"
        [] x = "floor-sanding"      -> "floor sanding service"
        [] x = "bathroom-install"   -> "bathroom fitter"
        [] x = "boiler-replacement" -> "boiler installer"
        [] x = "radiator-install"   -> "heating engineer"
        [] x = "rewire"             -> "electrician rewiring"
        [] x = "consumer-unit"      -> "electrician"
        [] x = "ev-charger"         -> "EV charger installer" ]

\* (jobTypeMapping[jobType] || [jobType])[0]
MappedQuery(jobType) ==
  IF jobType \in DOMAIN jobTypeMapping THEN jobTypeMapping[jobType]
  ELSE jobType

SearchQuery(v, jobType) ==
  CASE v = "part002"  -> jobType \o " contractor"
    [] v = "part003c" -> ToLowerCase(jobType)
    [] OTHER          -> MappedQuery(jobType)

(***************************************************************************)
(* Tier selection of each handler: the contractors handed to scoring and   *)
(* the `filters` object of the response.                                   *)
(***************************************************************************)
\* server.js 207-245 and 304-307
SelectTierServer(results) ==
  LET passed == FilterCandidates(results, MINIMUM_RATING, MINIMUM_REVIEWS)
      allContractors == [ i \in 1..Len(passed) |-> MapServer(passed[i]) ]
      firstFive == Slice0(results, 5)
  IN  [ contractors |->
          IF Len(allContractors) >= MIN_ACCEPTABLE THEN allContractors
          ELSE [ i \in 1..Len(firstFive) |-> MapServer(firstFive[i]) ],
        qualityFiltered |-> Len(allContractors),
        filters |-> [ minimumRating  |-> MINIMUM_RATING,
                      minimumReviews |-> MINIMUM_REVIEWS ] ]

\* mutant: the relaxed thresholds are above the strict ones
SelectTierPart002_RelaxedStricter(results) ==
  LET strict  == FilterCandidates(results, MIN_RATING, MIN_REVIEWS)
      relaxed == FilterCandidates(results, 45, 20)
      contractors == [ i \in 1..Len(strict) |-> MapPart002(strict[i], TRUE) ]
  IN  IF Len(contractors) = 0
      THEN [ contractors |->
               [ i \in 1..Len(relaxed) |-> MapPart002(relaxed[i], FALSE) ],
             filters |-> [ minimumRating  |-> 45,
                           minimumReviews |-> 20,
                           relaxed        |-> TRUE ] ]
      ELSE [ contractors |-> contractors,
             filters |-> [ minimumRating  |-> MIN_RATING,
                           minimumReviews |-> MIN_REVIEWS,
                           relaxed        |-> FALSE ] ]

\* part_002 518-575
SelectTierPart002(results) ==
  LET strict  == FilterCandidates(results, MIN_RATING, MIN_REVIEWS)
      relaxed == FilterCandidates(results, RELAXED_MIN_RATING,
                                  RELAXED_MIN_REVIEWS)
      contractors == [ i \in 1..Len(strict) |-> MapPart002(strict[i], TRUE) ]
  IN  IF Len(contractors) = 0
      THEN [ contractors |->
               [ i \in 1..Len(relaxed) |-> MapPart002(relaxed[i], FALSE) ],
             filters |-> [ minimumRating  |-> RELAXED_MIN_RATING,
                           minimumReviews |-> RELAXED_MIN_REVIEWS,
                           relaxed        |-> TRUE ] ]
      ELSE [ contractors |-> contractors,
             filters |-> [ minimumRating  |-> MIN_RATING,
                           minimumReviews |-> MIN_REVIEWS,
                           relaxed        |-> FALSE ] ]

\* mutant: relaxes only when no candidate passes the strict filter
SelectTierPart003b_RelaxOnZero(results) ==
  LET strict  == FilterCandidates(results, STRICT_MIN_RATING,
                                  STRICT_MIN_REVIEWS)
      relaxed == FilterCandidates(results, RELAXED_MIN_RATING,
                                  RELAXED_MIN_REVIEWS)
      strictContractors ==
        [ i \in 1..Len(strict) |-> MapTagged(strict[i], TRUE) ]
  IN  IF Len(strictContractors) = 0
      THEN [ contractors |->
               [ i \in 1..Len(relaxed) |-> MapTagged(relaxed[i], FALSE) ],
             filters |-> [ minimumRating  |-> RELAXED_MIN_RATING,
                           minimumReviews |-> RELAXED_MIN_REVIEWS,
                           relaxed        |-> TRUE ] ]
      ELSE [ contractors |-> strictContractors,
             filters |-> [ minimumRating  |-> STRICT_MIN_RATING,
                           minimumReviews |-> STRICT_MIN_REVIEWS,
                           relaxed        |-> FALSE ] ]

\* part_003 1487-1547 (the same text as part_004 338-398)
SelectTierPart003b(results) ==
  LET strict  == FilterCandidates(results, STRICT_MIN_RATING,
                                  STRICT_MIN_REVIEWS)
      relaxed == FilterCandidates(results, RELAXED_MIN_RATING,
                                  RELAXED_MIN_REVIEWS)
      strictContractors ==
        [ i \in 1..Len(strict) |-> MapTagged(strict[i], TRUE) ]
  IN  IF Len(strictContractors) < MIN_ACCEPTABLE
      THEN [ contractors |->
               [ i \in 1..Len(relaxed) |-> MapTagged(relaxed[i], FALSE) ],
             filters |-> [ minimumRating  |-> RELAXED_MIN_RATING,
                           minimumReviews |-> RELAXED_MIN_REVIEWS,
                           relaxed        |-> TRUE ] ]
      ELSE [ contractors |-> strictContractors,
             filters |-> [ minimumRating  |-> STRICT_MIN_RATING,
                           minimumReviews |-> STRICT_MIN_REVIEWS,
                           relaxed        |-> FALSE ] ]

\* part_003 2325-2366
SelectTierPart003c(results) ==
  LET first   == FilterThird(results)
      relaxed == FilterThirdRelaxed(results)
      contractors == [ i \in 1..Len(first) |-> MapThird(first[i]) ]
  IN  IF Len(contractors) < MIN_ACCEPTABLE
      THEN [ contractors |->
               [ i \in 1..Len(relaxed) |-> MapThird(relaxed[i]) ],
             filters |-> [ relaxed |-> TRUE ] ]
      ELSE [ contractors |-> contractors,
             filters |-> [ relaxed |-> FALSE ] ]

SelectTier(v, results) ==
  CASE v = "server"   -> SelectTierServer(results)
    [] v = "part002"  -> SelectTierPart002(results)
    [] v = "part003c" -> SelectTierPart003c(results)
    [] OTHER          -> SelectTierPart003b(results)

(***************************************************************************)
(* Scoring, sorting and the 200 response.                                  *)
(***************************************************************************)
\* contractors.map(score) then .sort(...)
ScoredContractors(v, results, jobType) ==
  LET contractors == SelectTier(v, results).contractors
      searchQuery == SearchQuery(v, jobType)
  IN  SortByScore([ i \in 1..Len(contractors) |->
                      Score(contractors[i], searchQuery) ])

\* res.json({ contractors: scoredContractors.slice(0, 5), ... })
RankResponse(v, results, jobType) ==
  LET tier == SelectTier(v, results)
  IN  [ status      |-> 200,
        contractors |-> Slice0(ScoredContractors(v, results, jobType), TOP_N),
        totalFound  |-> Len(results),
        filters     |-> tier.filters ]
      @@ Copy(tier, "qualityFiltered", "qualityFiltered")

\* part_003 2314-2322: the early return on an empty places result
EmptyResponse ==
  [ status |-> 200, contractors |-> <<>>, totalFound |-> 0,
    filters |-> [ relaxed |-> FALSE ] ]

ErrorResponse(code) == [ status |-> code ]

(***************************************************************************)
(* Inputs: request bodies and the replies of the Google services.          *)
(***************************************************************************)
\* req.body.jobType; "" stands for a missing jobType
JobTypes ==
  { "", "painting-room", "new-roof", "ev-charger", "Painters", "roofing",
    "plumber", "painter  decorator", "acme painters a p e" }

\* req.body.location / userLocation; "" stands for a missing location
Locations == { "", "BA14 8UZ" }

\* optional properties of a place of the Places API
RatingPart ==
  { NoFields } \cup { [ rating |-> r ] : r \in { 0, 30, 35, 36, 40, 45, 48, 50 } }

ReviewsPart ==
  { NoFields }
    \cup { [ user_ratings_total |-> n ] : n \in { 0, 3, 4, 5, 9, 10, 11, 50, 98, 99, 1000 } }

OpeningPart ==
  { NoFields, [ opening_hours |-> [ open_now |-> TRUE ] ],
    [ opening_hours |-> [ open_now |-> FALSE ] ] }

WebsitePart == { NoFields, [ website |-> "https://acme.example" ] }

PhonePart == { NoFields, [ formatted_phone_number |-> "01225 000000" ] }

NamePart ==
  { [ name |-> "Acme Painters", types |-> << "painter" >> ],
    [ name |-> "Bob's Decor", types |-> << "painter", "point_of_interest" >> ],
    [ name |-> "ROOFING Contractor Ltd",
      types |-> << "roofing_contractor", "general_contractor" >> ] }

\* every place the model draws for a one-place reply
SinglePlaces ==
  { n @@ r @@ u @@ o @@ w @@ ph :
      n \in NamePart, r \in RatingPart, u \in ReviewsPart, o \in OpeningPart,
      w \in WebsitePart, ph \in PhonePart }

\* the places the model draws for longer replies: one that passes every
\* strict filter, one that passes only the relaxed filters, one without
\* rating and reviews
CataloguePlaces ==
  { [ name |-> "Acme Painters", types |-> << "painter" >>, rating |-> 48,
      user_ratings_total |-> 50, website |-> "https://acme.example",
      formatted_phone_number |-> "01225 000000",
      opening_hours |-> [ open_now |-> TRUE ] ],
    [ name |-> "Bob's Decor", types |-> << "painter" >>, rating |-> 36,
      user_ratings_total |-> 4, opening_hours |-> [ open_now |-> FALSE ] ],
    [ name |-> "Dan Decorator", types |-> << "point_of_interest" >> ] }

\* place_id: unique per place of a reply; the model uses the position
WithIds(places) ==
  [ i \in 1..Len(places) |-> places[i] @@ ("place_id" :> i) ]

\* job types for which replies longer than one place are enumerated
ListJobTypes == { "painting-room" }

PlaceLists(jobType) ==
  { << p >> : p \in SinglePlaces }
    \cup (IF jobType \in ListJobTypes
          THEN UNION { [ 1..n -> CataloguePlaces ] : n \in 0..MaxPlaces }
          ELSE { << >> })

\* what `await googlePlacesClient.placesNearby / textSearch` yields: a
\* response with a status and results, or a rejected promise ("throw")
PlacesReplies(jobType) ==
  { [ status |-> IF l = << >> THEN "ZERO_RESULTS" ELSE "OK",
      results |-> WithIds(l) ] : l \in PlaceLists(jobType) }
    \cup { [ status |-> "REQUEST_DENIED", results |-> << >> ],
           [ status |-> "throw", results |-> << >> ] }

\* what `await googlePlacesClient.geocode` yields
GeocodeReplies == { "found", "none", "throw" }

(***************************************************************************)
(* State.                                                                  *)
(***************************************************************************)
VARIABLES
  variant,        \* which of the five handlers is deployed
  pc,             \* position of the request in the handler
  req,            \* req.body
  searchResults,  \* module-level `let searchResults` (part_003, part_004)
  response,       \* the handler's `response` once the places call returned
  res,            \* what the handler sent: res.status(...).json(...)
  dailyUsage,     \* the DailyUsage collection: today's document, if any
  estimates       \* the number of documents of the Estimate collection

vars == << variant, pc, req, searchResults, response, res, dailyUsage, estimates >>

NoResponse == [ status |-> "none", results |-> << >> ]
NoRes == [ status |-> 0 ]

Init ==
  /\ variant \in Variants
  /\ pc = "idle"
  /\ req = [ jobType |-> "", location |-> "" ]
  /\ searchResults = NoResponse
  /\ response = NoResponse
  /\ res = NoRes
  /\ dailyUsage = << >>
  /\ estimates = 0

(***************************************************************************)
(* POST /api/search-contractors, up to its first await.                    *)
(***************************************************************************)
\* `jobTypeMapping[jobType]` at part_004 201 is evaluated in the temporal
\* dead zone of `const jobTypeMapping` (part_004 267, same block): it throws
\* a ReferenceError, which the catch at 463 turns into a 500
ThrowsBeforeSearch(v) == v = "part004"

\* handlers that geocode the location before the places search
Geocodes(v) == v \in { "part002", "part003c" }

Request(jobType, location) ==
  /\ pc = "idle"
  /\ req' = [ jobType |-> jobType, location |-> location ]
  /\ IF jobType = "" \/ location = ""
     THEN /\ res' = ErrorResponse(400)
          /\ pc' = "done"
     ELSE IF ThrowsBeforeSearch(variant)
     THEN /\ res' = ErrorResponse(500)
          /\ pc' = "done"
     ELSE /\ res' = res
          /\ pc' = IF Geocodes(variant) THEN "geocode" ELSE "places"
  /\ UNCHANGED << variant, searchResults, response,
                  dailyUsage, estimates >>

(***************************************************************************)
(* The continuation after `await googlePlacesClient.geocode(...)`.         *)
(* part_002 459-490 replaces a failed or empty geocoding by fallback data  *)
(* and goes on; part_003 2225-2235 answers 404 on no result and 500 (catch *)
(* at 2430) on a rejected call.                                            *)
(***************************************************************************)
GeocodeReturn(reply) ==
  /\ pc = "geocode"
  /\ IF variant = "part003c" /\ reply = "none"
     THEN res' = ErrorResponse(404) /\ pc' = "done"
     ELSE IF variant = "part003c" /\ reply = "throw"
     THEN res' = ErrorResponse(500) /\ pc' = "done"
     ELSE res' = res /\ pc' = "places"
  /\ UNCHANGED << variant, req, searchResults, response,
                  dailyUsage, estimates >>

(***************************************************************************)
(* The continuation after the places search: status check, tier selection, *)
(* scoring, sort and res.json, all synchronous.                            *)
(***************************************************************************)
\* `status !== 'OK' && status !== 'ZERO_RESULTS'` (server.js 199,
\* part_003 1477); part_002 and the third handler do not look at the status
StatusRejected_OnlyOk(v, reply) ==
  /\ v \in { "server", "part003b" }
  /\ reply.status # "OK"

StatusRejected(v, reply) ==
  /\ v \in { "server", "part003b" }
  /\ reply.status # "OK"
  /\ reply.status # "ZERO_RESULTS"

\* `searchResults = response` (part_003 1459, 1472)
StoresSearchResults(v) == v = "part003b"

Respond(v, reply, jobType) ==
  IF reply.status = "throw" \/ StatusRejected(v, reply)
  THEN ErrorResponse(500)
  ELSE IF v = "part003c" /\ Len(reply.results) = 0
  THEN EmptyResponse
  ELSE RankResponse(v, reply.results, jobType)

\* part_003 1455-1475: the awaited value is bound to a block-scoped
\* `response`, stored with `searchResults = response`, and the handler's
\* outer `const response = searchResults` reads the module variable back in
\* the same continuation; the other handlers use the awaited value itself.
\* `held` is the module variable as the continuation finds it.
StoreThenRead_ReadBeforeStore(v, held, awaited) ==
  IF StoresSearchResults(v)
  THEN [ searchResults |-> awaited, response |-> held ]
  ELSE [ searchResults |-> held, response |-> awaited ]

StoreThenRead(v, held, awaited) ==
  IF StoresSearchResults(v)
  THEN LET stored == awaited
       IN  [ searchResults |-> stored, response |-> stored ]
  ELSE [ searchResults |-> held, response |-> awaited ]

PlacesReturn ==
  /\ pc = "places"
  /\ \E reply \in PlacesReplies(req.jobType) :
       IF reply.status = "throw"
       THEN /\ res' = ErrorResponse(500)
            /\ UNCHANGED << searchResults, response >>
       ELSE LET after == StoreThenRead(variant, searchResults, reply)
            IN  /\ searchResults' = after.searchResults
                /\ response' = after.response
                /\ res' = Respond(variant, after.response, req.jobType)
  /\ pc' = "done"
  /\ UNCHANGED << variant, req,
                  dailyUsage, estimates >>

Next ==
  \/ \E j \in JobTypes, l \in Locations : Request(j, l)
  \/ \E g \in GeocodeReplies : GeocodeReturn(g)
  \/ PlacesReturn

Spec == Init /\ [][Next]_vars

(***************************************************************************)
(* Several search requests in flight on one server process.  Node runs     *)
(* each continuation of a handler to its next await without interruption;  *)
(* the continuations of different requests interleave at the awaits.  Here *)
(* pc, req, response and res hold one value for each request; variant and  *)
(* the module-level searchResults are shared.  response[r] keeps both      *)
(* bindings named `response`: the awaited one and the one the handler      *)
(* goes on with.                                                           *)
(***************************************************************************)
MaxInFlight == 2

InFlight == 1..MaxInFlight

ConcurrentJobTypes == { "painting-room", "roofing" }

\* the replies of the places search drawn for concurrent requests
ConcurrentReplies ==
  { [ status |-> "ZERO_RESULTS", results |-> << >> ],
    [ status |-> "REQUEST_DENIED", results |-> << >> ],
    [ status |-> "throw", results |-> << >> ] }
    \cup { [ status |-> "OK", results |-> WithIds(<< p >>) ] :
             p \in CataloguePlaces }

ConcurrentInit ==
  /\ variant \in Variants
  /\ pc = [ r \in InFlight |-> "idle" ]
  /\ req = [ r \in InFlight |-> [ jobType |-> "", location |-> "" ] ]
  /\ searchResults = NoResponse
  /\ response = [ r \in InFlight |->
                    [ awaited |-> NoResponse, used |-> NoResponse ] ]
  /\ res = [ r \in InFlight |-> NoRes ]
  /\ dailyUsage = << >>
  /\ estimates = 0

\* the handler up to its first await, for request r
HandleRequest(r, jobType, location) ==
  /\ pc[r] = "idle"
  /\ req' = [ req EXCEPT ![r] = [ jobType |-> jobType, location |-> location ] ]
  /\ IF jobType = "" \/ location = ""
     THEN /\ res' = [ res EXCEPT ![r] = ErrorResponse(400) ]
          /\ pc' = [ pc EXCEPT ![r] = "done" ]
     ELSE IF ThrowsBeforeSearch(variant)
     THEN /\ res' = [ res EXCEPT ![r] = ErrorResponse(500) ]
          /\ pc' = [ pc EXCEPT ![r] = "done" ]
     ELSE /\ res' = res
          /\ pc' = [ pc EXCEPT ![r] =
                       IF Geocodes(variant) THEN "geocode" ELSE "places" ]
  /\ UNCHANGED << variant, searchResults, response,
                  dailyUsage, estimates >>

\* the continuation of request r after the geocoding await
HandleGeocodeReturn(r, reply) ==
  /\ pc[r] = "geocode"
  /\ IF variant = "part003c" /\ reply = "none"
     THEN /\ res' = [ res EXCEPT ![r] = ErrorResponse(404) ]
          /\ pc' = [ pc EXCEPT ![r] = "done" ]
     ELSE IF variant = "part003c" /\ reply = "throw"
     THEN /\ res' = [ res EXCEPT ![r] = ErrorResponse(500) ]
          /\ pc' = [ pc EXCEPT ![r] = "done" ]
     ELSE /\ res' = res
          /\ pc' = [ pc EXCEPT ![r] = "places" ]
  /\ UNCHANGED << variant, req, searchResults, response,
                  dailyUsage, estimates >>

\* the continuation of request r after the places await, to res.json
HandlePlacesReturn(r, reply) ==
  /\ pc[r] = "places"
  /\ IF reply.status = "throw"
     THEN /\ res' = [ res EXCEPT ![r] = ErrorResponse(500) ]
          /\ UNCHANGED << searchResults, response >>
     ELSE LET after == StoreThenRead(variant, searchResults, reply)
          IN  /\ searchResults' = after.searchResults
              /\ response' = [ response EXCEPT ![r] =
                                 [ awaited |-> reply, used |-> after.response ] ]
              /\ res' = [ res EXCEPT ![r] =
                            Respond(variant, after.response, req[r].jobType) ]
  /\ pc' = [ pc EXCEPT ![r] = "done" ]
  /\ UNCHANGED << variant, req,
                  dailyUsage, estimates >>

ConcurrentNext ==
  \/ \E r \in InFlight, j \in ConcurrentJobTypes, l \in Locations :
       HandleRequest(r, j, l)
  \/ \E r \in InFlight, g \in GeocodeReplies : HandleGeocodeReturn(r, g)
  \/ \E r \in InFlight, reply \in ConcurrentReplies : HandlePlacesReturn(r, reply)

ConcurrentSpec == ConcurrentInit /\ [][ConcurrentNext]_vars

(***************************************************************************)
(* Vocabulary of the properties.  These definitions restate what the       *)
(* specification says; they use none of the handler's operators.           *)
(***************************************************************************)
\* the handler answered 200 with a ranking
Answered == pc = "done" /\ res.status = 200

\* the candidate list the ranking was computed from
Candidates == response.results

\* rating and review count of a candidate, a missing one counted as 0
RatingOf(p) == IF "rating" \in DOMAIN p THEN p.rating ELSE 0
ReviewCountOf(p) == IF "user_ratings_total" \in DOMAIN p THEN p.user_ratings_total ELSE 0

\* the positions of the candidates that meet a tier
MeetsTier(p, minRating, minReviews) ==
  RatingOf(p) >= minRating /\ ReviewCountOf(p) >= minReviews

PositionsMeeting(cands, minRating, minReviews) ==
  { i \in 1..Len(cands) : MeetsTier(cands[i], minRating, minReviews) }

\* the elements of a set of numbers in increasing order
RECURSIVE Ascending(_)
Ascending(S) ==
  IF S = {} THEN << >>
  ELSE LET m == CHOOSE x \in S : \A y \in S : x <= y
       IN  << m >> \o Ascending(S \ { m })

\* the positions (place ids) of a list of contractors or places, in order
PlaceIds(cs) == [ i \in 1..Len(cs) |-> cs[i].placeId ]

\* the tier the response reports, if it reports one
ReportsRelaxed == "relaxed" \in DOMAIN res.filters /\ res.filters.relaxed
ReportsStrict == "relaxed" \in DOMAIN res.filters /\ ~res.filters.relaxed

\* the contractors selectTier hands to scoring
Selected == SelectTier(variant, Candidates).contractors

\* the strict review minimum of the deployed handler
StrictReviewMinimum == IF variant = "part002" THEN 10 ELSE 5

(***************************************************************************)
(* C3.  filterCandidates(candidates, tier) returns exactly the candidates  *)
(* with rating >= tier.minimumRating and reviewCount >= tier.minimumReviews*)
(* (a missing rating or review count is 0), in the order of the input, and *)
(* the input list is as it was received.  Checked for the three tiers of   *)
(* the handlers on every candidate list a handler ranked.                  *)
(***************************************************************************)
TierPairs == { << 40, 5 >>, << 40, 10 >>, << 35, 3 >> }

C3_FilterIsExact(cands, minRating, minReviews) ==
  LET out == FilterCandidates(cands, minRating, minReviews)
  IN  /\ [ i \in 1..Len(out) |-> out[i].place_id ]
           = Ascending(PositionsMeeting(cands, minRating, minReviews))
      /\ \A i \in 1..Len(out) : out[i] = cands[out[i].place_id]

C3_FilterCandidates ==
  Answered =>
    /\ \A t \in TierPairs : C3_FilterIsExact(Candidates, t[1], t[2])
    /\ res.totalFound = Len(Candidates)
    /\ \A i \in 1..Len(Candidates) : Candidates[i].place_id = i

\* a ranked list from which the strict filter drops a candidate that stands
\* between two it keeps
C3_Witness ==
  /\ Answered
  /\ \E i, j, k \in 1..Len(Candidates) :
       /\ i < j /\ j < k
       /\ MeetsTier(Candidates[i], 40, 5)
       /\ ~MeetsTier(Candidates[j], 40, 5)
       /\ MeetsTier(Candidates[k], 40, 5)
  /\ Len(FilterCandidates(Candidates, 40, 5)) >= 2

(***************************************************************************)
(* C1.  selectTier relaxes when fewer than 3 candidates pass the strict    *)
(* tier (rating >= 4.0, reviews >= the strict review minimum): the         *)
(* selected set is then exactly the candidates passing the relaxed tier    *)
(* (rating >= 3.5, reviews >= 3) and the tier is reported as relaxed; with *)
(* 3 or more strict candidates the strict set is selected and the tier is  *)
(* reported as strict.                                                     *)
(***************************************************************************)
StrictPositions == PositionsMeeting(Candidates, 40, StrictReviewMinimum)
RelaxedPositions == PositionsMeeting(Candidates, 35, 3)

\* the statement as the specification makes it, read on the answers that
\* report a tier for a candidate list that is not empty
C1_AsStated ==
  (Answered /\ "relaxed" \in DOMAIN res.filters /\ Candidates # << >>) =>
    IF Cardinality(StrictPositions) < 3
    THEN PlaceIds(Selected) = Ascending(RelaxedPositions) /\ ReportsRelaxed
    ELSE PlaceIds(Selected) = Ascending(StrictPositions) /\ ReportsStrict

\* the statement handler by handler:
\*   part_003 (second handler): as stated, strict review minimum 5;
\*   part_002: strict review minimum 10, relaxes only on zero strict results;
\*   server.js: fewer than 3 strict results give the first five candidates
\*     unfiltered, and the response reports the strict thresholds, no tier;
\*   part_003 (third handler): first tier rating >= 3.5 and reviews >= 5,
\*     fewer than 3 give rating >= 3.0 with any review count; an empty
\*     candidate list is reported as not relaxed.
C1_TierRelaxation ==
  Answered =>
    /\ variant = "part003b" =>
         IF Cardinality(StrictPositions) < 3
         THEN PlaceIds(Selected) = Ascending(RelaxedPositions) /\ ReportsRelaxed
         ELSE PlaceIds(Selected) = Ascending(StrictPositions) /\ ReportsStrict
    /\ variant = "part002" =>
         IF Cardinality(StrictPositions) = 0
         THEN PlaceIds(Selected) = Ascending(RelaxedPositions) /\ ReportsRelaxed
         ELSE PlaceIds(Selected) = Ascending(StrictPositions) /\ ReportsStrict
    /\ variant = "server" =>
         /\ IF Cardinality(StrictPositions) < 3
            THEN PlaceIds(Selected)
                   = [ i \in 1..(IF Len(Candidates) < 5 THEN Len(Candidates)
                                 ELSE 5) |-> i ]
            ELSE PlaceIds(Selected) = Ascending(StrictPositions)
         /\ "relaxed" \notin DOMAIN res.filters
         /\ res.filters.minimumRating = 40 /\ res.filters.minimumReviews = 5
         /\ res.qualityFiltered = Cardinality(StrictPositions)
    /\ variant = "part003c" =>
         IF Candidates = << >> THEN ReportsStrict /\ res.contractors = << >>
         ELSE IF Cardinality(PositionsMeeting(Candidates, 35, 5)) < 3
         THEN /\ PlaceIds(Selected)
                   = Ascending(PositionsMeeting(Candidates, 30, 0))
              /\ ReportsRelaxed
         ELSE /\ PlaceIds(Selected)
                   = Ascending(PositionsMeeting(Candidates, 35, 5))
              /\ ReportsStrict
    /\ \A i \in 1..Len(res.contractors) :
         \E j \in 1..Len(Selected) : Selected[j].placeId = res.contractors[i].placeId

\* the second handler of part_003 relaxed with one or two strict candidates
\* and selected more than the strict candidates
C1_Witness ==
  /\ Answered /\ variant = "part003b"
  /\ Cardinality(StrictPositions) \in { 1, 2 }
  /\ Cardinality(RelaxedPositions) > Cardinality(StrictPositions)
  /\ ReportsRelaxed
  /\ Len(res.contractors) = Cardinality(RelaxedPositions)

JobKeyword == SearchQuery(variant, req.jobType)

\* the ranked contractors of the answer
Ranked == res.contractors

IsOpenNow(c) == "openNow" \in DOMAIN c /\ c.openNow = TRUE
HasWebsite(c) == "website" \in DOMAIN c /\ c.website \notin { "", Null }
HasPhone(c) == "phoneNumber" \in DOMAIN c /\ c.phoneNumber \notin { "", Null }

\* lowercase(name + " " + categories joined by spaces)
SearchedText(c) == ToLowerCase(c.name \o " " \o Join(c.types))

\* number of spaces of a string
Spaces(s) == Cardinality({ i \in 1..Len(s) : SubSeq(s, i, i) = " " })

\* the whitespace-separated tokens of a string: its maximal runs of
\* characters other than the space, as pairs << first, last >>
TokenSpans(s) ==
  { << a, b >> \in (1..Len(s)) \X (1..Len(s)) :
      /\ a <= b
      /\ \A i \in a..b : SubSeq(s, i, i) # " "
      /\ (a = 1 \/ SubSeq(s, a - 1, a - 1) = " ")
      /\ (b = Len(s) \/ SubSeq(s, b + 1, b + 1) = " ") }

\* a string occurs in a text
Occurs(text, word) ==
  \E i \in 1..(Len(text) - Len(word) + 1) :
    SubSeq(text, i, i + Len(word) - 1) = word

\* number of whitespace-separated lowercase tokens of keyword occurring in text
TokensOccurring(text, keyword) ==
  LET k == ToLowerCase(keyword)
  IN  Cardinality({ t \in TokenSpans(k) : Occurs(text, SubSeq(k, t[1], t[2])) })

\* number of empty pieces when keyword is cut at every single space
EmptyPieces(keyword) ==
  Spaces(keyword) + 1 - Cardinality(TokenSpans(keyword))

Least(a, b) == IF a < b THEN a ELSE b

(***************************************************************************)
(* C4.  For every candidate with rating in [0, 5] and reviewCount >= 0 and *)
(* every jobKeyword, matchScore is an integer between 0 and 100 and each   *)
(* of the five components stays within its weight: rating <= 35, reviews   *)
(* <= 25, relevance <= 20, open <= 10, professional <= 10.  The components *)
(* are read from the scoreBreakdown, in tenths.                            *)
(***************************************************************************)
C4_ScoreBounds ==
  Answered =>
    \A i \in 1..Len(Ranked) :
      LET c == Ranked[i] IN
        /\ c.matchScore \in 0..100
        /\ c.scoreBreakdown.rating \in 0..350
        /\ c.scoreBreakdown.reviews \in 0..250
        /\ c.scoreBreakdown.relevance \in 0..200
        /\ c.scoreBreakdown.active \in 0..100
        /\ c.scoreBreakdown.professional \in 0..100

\* a contractor at the top of every component, scored with five keywords
\* that all occur
C4_Witness ==
  /\ Answered
  /\ TokensOccurring("acme painters painter", JobKeyword) >= 5
  /\ \E i \in 1..Len(Ranked) :
       /\ Ranked[i].matchScore = 100
       /\ Ranked[i].scoreBreakdown.relevance = 200
       /\ Ranked[i].scoreBreakdown.reviews = 250

(***************************************************************************)
(* C5.  score = round(ratingScore + reviewScore + relevanceScore +         *)
(* activeScore + professionalScore) with ratingScore = (rating/5)*35,      *)
(* reviewScore = min(log10(reviewCount+1)/2, 1)*25, activeScore = 10 if    *)
(* open now else 0, professionalScore = 5 if a website is present plus 5   *)
(* if a phone number is present, and the scoreBreakdown holds the          *)
(* contribution of each of the five components.                            *)
(* Contributions are in millionths; the relevance contribution, which the  *)
(* statement leaves open, is read from the breakdown (a whole number).     *)
(***************************************************************************)
RatingContribution(c) == (c.rating * 35 * Micro) \div 50

ReviewContribution(c) ==
  LET l == Log10Micro(c.totalReviews + 1)
  IN  IF l >= 2 * Micro THEN 25 * Micro ELSE (l * 25) \div 2

ActiveContribution(c) == IF IsOpenNow(c) THEN 10 * Micro ELSE 0

ProfessionalContribution(c) ==
  (IF HasWebsite(c) THEN 5 * Micro ELSE 0) + (IF HasPhone(c) THEN 5 * Micro ELSE 0)

RelevanceContribution(c) == c.scoreBreakdown.relevance * (Micro \div 10)

ContributionSum(c) ==
  RatingContribution(c) + ReviewContribution(c) + RelevanceContribution(c)
    + ActiveContribution(c) + ProfessionalContribution(c)

\* k is x rounded to the nearest integer (a tie goes up); x in millionths
IsRounded(k, x) == 2 * k * Micro - Micro <= 2 * x /\ 2 * x < 2 * k * Micro + Micro

\* t (in tenths) is x rounded to one decimal place; x in millionths
IsRoundedToTenth(t, x) ==
  2 * t * (Micro \div 10) - (Micro \div 10) <= 2 * x
    /\ 2 * x < 2 * t * (Micro \div 10) + (Micro \div 10)

C5_ScoreIsRoundedSum(c) == IsRounded(c.matchScore, ContributionSum(c))

\* the statement as the specification makes it: the breakdown holds the
\* contributions themselves
C5_AsStated ==
  Answered =>
    \A i \in 1..Len(Ranked) :
      LET c == Ranked[i] IN
        /\ C5_ScoreIsRoundedSum(c)
        /\ c.scoreBreakdown.rating * (Micro \div 10) = RatingContribution(c)
        /\ c.scoreBreakdown.reviews * (Micro \div 10) = ReviewContribution(c)
        /\ c.scoreBreakdown.active * (Micro \div 10) = ActiveContribution(c)
        /\ c.scoreBreakdown.professional * (Micro \div 10)
             = ProfessionalContribution(c)

\* the score is as stated; the breakdown holds each contribution rounded to
\* one decimal place
C5_ScoreFormula ==
  Answered =>
    \A i \in 1..Len(Ranked) :
      LET c == Ranked[i] IN
        /\ C5_ScoreIsRoundedSum(c)
        /\ DOMAIN c.scoreBreakdown
             = { "rating", "reviews", "relevance", "active", "professional" }
        /\ IsRoundedToTenth(c.scoreBreakdown.rating, RatingContribution(c))
        /\ IsRoundedToTenth(c.scoreBreakdown.reviews, ReviewContribution(c))
        /\ IsRoundedToTenth(c.scoreBreakdown.active, ActiveContribution(c))
        /\ IsRoundedToTenth(c.scoreBreakdown.professional,
                            ProfessionalContribution(c))

\* a contractor with all five contributions above zero whose review
\* contribution has more than one decimal and whose breakdown adds up to a
\* half, while the score itself was rounded down
C5_Witness ==
  /\ Answered
  /\ \E i \in 1..Len(Ranked) :
       LET c == Ranked[i] IN
         /\ c.rating > 0 /\ c.totalReviews > 0 /\ c.scoreBreakdown.relevance > 0
         /\ IsOpenNow(c) /\ HasWebsite(c) /\ HasPhone(c)
         /\ c.scoreBreakdown.reviews * (Micro \div 10) # ReviewContribution(c)
         /\ c.scoreBreakdown.rating + c.scoreBreakdown.reviews
              + c.scoreBreakdown.relevance + c.scoreBreakdown.active
              + c.scoreBreakdown.professional = 10 * c.matchScore + 5

(***************************************************************************)
(* C6.  The keyword relevance component adds 5 for each whitespace-        *)
(* separated lowercase token of jobKeyword that occurs as a substring of   *)
(* lowercase(name + " " + categories joined by spaces), nothing for a      *)
(* token that does not occur, and is capped at 20.                         *)
(***************************************************************************)
\* the statement as the specification makes it
C6_AsStated ==
  Answered =>
    \A i \in 1..Len(Ranked) :
      Ranked[i].scoreBreakdown.relevance
        = 10 * Least(20, 5 * TokensOccurring(SearchedText(Ranked[i]), JobKeyword))

\* the keyword is cut at every single space: besides the tokens, each empty
\* piece (from a doubled, leading or trailing space) counts as occurring
C6_KeywordRelevance ==
  Answered =>
    \A i \in 1..Len(Ranked) :
      Ranked[i].scoreBreakdown.relevance
        = 10 * Least(20, 5 * (TokensOccurring(SearchedText(Ranked[i]), JobKeyword)
                                + EmptyPieces(JobKeyword)))

\* a keyword with a doubled space scored against a contractor in whose text
\* one of its two tokens occurs and the other does not: relevance 10
C6_Witness ==
  /\ Answered
  /\ EmptyPieces(JobKeyword) = 1
  /\ Cardinality(TokenSpans(JobKeyword)) = 2
  /\ \E i \in 1..Len(Ranked) :
       /\ TokensOccurring(SearchedText(Ranked[i]), JobKeyword) = 1
       /\ Ranked[i].scoreBreakdown.relevance = 100

(***************************************************************************)
(* C7.  For every candidate with rating 5, reviewCount 1000, open now,     *)
(* with website and phone, and every jobKeyword fully contained in the     *)
(* candidate's name, score returns 100.                                    *)
(***************************************************************************)
BestCandidate(c) ==
  /\ c.rating = 50 /\ c.totalReviews = 1000
  /\ IsOpenNow(c) /\ HasWebsite(c) /\ HasPhone(c)

\* every token of the keyword occurs in the lowercase name
ContainedInName(c, keyword) ==
  LET k == ToLowerCase(keyword)
  IN  /\ TokenSpans(k) # {}
      /\ \A t \in TokenSpans(k) :
           Occurs(ToLowerCase(c.name), SubSeq(k, t[1], t[2]))

\* the statement as the specification makes it
C7_AsStated ==
  Answered =>
    \A i \in 1..Len(Ranked) :
      (BestCandidate(Ranked[i]) /\ ContainedInName(Ranked[i], JobKeyword))
        => Ranked[i].matchScore = 100

\* the score is 80 plus 5 for each piece of the keyword, at most 20: it is
\* 100 when the keyword has four or more pieces
C7_BestCandidateScore ==
  Answered =>
    \A i \in 1..Len(Ranked) :
      (BestCandidate(Ranked[i]) /\ ContainedInName(Ranked[i], JobKeyword))
        => /\ Ranked[i].matchScore
                = 80 + Least(20, 5 * (Spaces(JobKeyword) + 1))
           /\ (Spaces(JobKeyword) >= 3 => Ranked[i].matchScore = 100)

\* a best candidate whose name contains the five tokens of the keyword
C7_Witness ==
  /\ Answered
  /\ Spaces(JobKeyword) >= 3
  /\ \E i \in 1..Len(Ranked) :
       /\ BestCandidate(Ranked[i])
       /\ ContainedInName(Ranked[i], JobKeyword)
       /\ Ranked[i].matchScore = 100

(***************************************************************************)
(* C8.  For every candidate with rating 0, reviewCount 0, not open, no     *)
(* website and no phone, and for every jobKeyword, score returns 0.        *)
(***************************************************************************)
WorstCandidate(c) ==
  /\ c.rating = 0 /\ c.totalReviews = 0
  /\ ~IsOpenNow(c) /\ ~HasWebsite(c) /\ ~HasPhone(c)

\* the statement as the specification makes it
C8_AsStated ==
  Answered =>
    \A i \in 1..Len(Ranked) :
      WorstCandidate(Ranked[i]) => Ranked[i].matchScore = 0

\* the score is the keyword relevance alone: 5 for each piece of the
\* keyword occurring in the name and categories, at most 20; it is 0
\* exactly when no piece occurs
C8_WorstCandidateScore ==
  Answered =>
    \A i \in 1..Len(Ranked) :
      WorstCandidate(Ranked[i]) =>
        LET pieces == TokensOccurring(SearchedText(Ranked[i]), JobKeyword)
                        + EmptyPieces(JobKeyword)
        IN  /\ Ranked[i].matchScore = Least(20, 5 * pieces)
            /\ (Ranked[i].matchScore = 0 <=> pieces = 0)

\* a worst candidate that was ranked, with a keyword of which nothing occurs
C8_Witness ==
  /\ Answered
  /\ \E i \in 1..Len(Ranked) :
       /\ WorstCandidate(Ranked[i])
       /\ TokensOccurring(SearchedText(Ranked[i]), JobKeyword) = 0
       /\ Ranked[i].matchScore = 0

(***************************************************************************)
(* C9.  rank returns contractors in non-increasing order of matchScore,    *)
(* and two returned contractors with equal matchScore appear in the same   *)
(* relative order as in the input candidate list.                          *)
(***************************************************************************)
C9_SortedAndStable ==
  Answered =>
    \A i, j \in 1..Len(Ranked) :
      i < j =>
        /\ Ranked[i].matchScore >= Ranked[j].matchScore
        /\ Ranked[i].matchScore = Ranked[j].matchScore
             => Ranked[i].placeId < Ranked[j].placeId

\* the sort had to move a contractor ahead of one that precedes it in the
\* input, and it ranked two contractors of equal score
C9_Witness ==
  /\ Answered
  /\ \E i, j \in 1..Len(Ranked) :
       i < j /\ Ranked[i].placeId > Ranked[j].placeId
  /\ \E i, j \in 1..Len(Ranked) :
       i < j /\ Ranked[i].matchScore = Ranked[j].matchScore

(***************************************************************************)
(* C10.  For every candidate list rank returns at most topN (5)            *)
(* contractors, and exactly min(topN, number of candidates that passed the *)
(* tier filter).                                                           *)
(***************************************************************************)
\* the candidates that pass the tier filter the answer reports
PassedTierFilter ==
  CASE variant = "part003c" ->
         IF ReportsRelaxed THEN PositionsMeeting(Candidates, 30, 0)
         ELSE PositionsMeeting(Candidates, 35, 5)
    [] OTHER ->
         PositionsMeeting(Candidates, res.filters.minimumRating,
                          res.filters.minimumReviews)

\* the statement as the specification makes it
C10_AsStated ==
  Answered =>
    /\ Len(Ranked) <= 5
    /\ Len(Ranked) = Least(5, Cardinality(PassedTierFilter))

\* src/server.js, when fewer than 3 candidates pass its one tier, ranks the
\* first five candidates unfiltered
RankedFrom ==
  IF variant = "server" /\ Cardinality(StrictPositions) < 3
  THEN { i \in 1..Len(Candidates) : i <= 5 }
  ELSE PassedTierFilter

C10_AtMostTopN ==
  Answered =>
    /\ Len(Ranked) <= 5
    /\ Len(Ranked) = Least(5, Cardinality(RankedFrom))
    /\ \A i \in 1..Len(Ranked) : Ranked[i].placeId \in RankedFrom

\* more than five candidates passed the filter and five were returned
C10_Witness ==
  /\ Answered
  /\ Cardinality(PassedTierFilter) > 5
  /\ Len(Ranked) = 5

(***************************************************************************)
(* C12.  When the places lookup yields an empty candidate list, ranking    *)
(* produces a successful (non-error) result with an empty contractor list  *)
(* and still reports the tier/filter metadata.                             *)
(***************************************************************************)
\* the places lookup of the request returned, and returned no candidate
EmptyLookup ==
  /\ pc = "done"
  /\ response.status \in { "OK", "ZERO_RESULTS" }
  /\ response.results = << >>

C12_EmptyCandidateList ==
  EmptyLookup =>
    /\ res.status = 200
    /\ res.contractors = << >>
    /\ res.totalFound = 0
    /\ "filters" \in DOMAIN res
    /\ DOMAIN res.filters # {}

\* an empty lookup answered by a handler that checks the status of the reply
C12_Witness ==
  /\ EmptyLookup
  /\ variant \in { "server", "part003b" }
  /\ res.status = 200
  /\ "minimumRating" \in DOMAIN res.filters

(***************************************************************************)
(* C11.  rank is deterministic: two invocations with the same candidate    *)
(* list and the same keyword return the same contractors in the same order *)
(* with the same matchScores and the same tier metadata, regardless of any *)
(* earlier or interleaved invocation.                                      *)
(***************************************************************************)
\* request r got a reply of the places search and answered
Fetched(r) == pc[r] = "done" /\ response[r].awaited.status # "none"

\* requests r1 and r2 ranked the same candidate list for the same keyword
SameInvocation(r1, r2) ==
  /\ Fetched(r1) /\ Fetched(r2)
  /\ req[r1].jobType = req[r2].jobType
  /\ response[r1].awaited = response[r2].awaited

NamesOf(places) == { places[i].name : i \in 1..Len(places) }

C20_RequestsAreIndependent ==
  \A r \in InFlight :
    Fetched(r) =>
      /\ response[r].used = response[r].awaited
      /\ res[r].status = 200 =>
           /\ res[r].totalFound = Len(response[r].awaited.results)
           /\ NamesOf(res[r].contractors)
                \subseteq NamesOf(response[r].awaited.results)

\* two answered requests of the handler that stores the reply in the module
\* variable fetched different candidates; the variable holds one of them
C20_Witness ==
  /\ variant = "part003b"
  /\ \E r1, r2 \in InFlight :
       /\ Fetched(r1) /\ Fetched(r2)
       /\ res[r1].status = 200 /\ res[r2].status = 200
       /\ Len(res[r1].contractors) > 0 /\ Len(res[r2].contractors) > 0
       /\ NamesOf(res[r1].contractors) # NamesOf(res[r2].contractors)
       /\ searchResults = response[r2].awaited

(***************************************************************************)
(* POST /api/analyze-photos.  Three versions of the handler exist:         *)
(*   "avg"      part_002 198-350, part_003 192-344: mean of the four       *)
(*              factors, confidence clamped to 0..100                      *)
(*   "band"     part_003 1952-2090: the same, confidence clamped to 60..95 *)
(*   "product"  server.js 28-148, part_003 1091-1185, part_004 29-140 and  *)
(*              498-609: product of the factors, the confidence of the     *)
(*              vision reply passed through                                *)
(* The values of the parsed reply are JavaScript values: JSON.parse yields *)
(* numbers, strings and null, and an absent property reads as undefined.   *)
(* A number is kept as its whole part and its fraction in units of 1e-8;   *)
(* the model treats non-negative numbers with at most 8 decimals.          *)
(***************************************************************************)
E8 == 100000000

Undefined == [ t |-> "undefined" ]
JsNull == [ t |-> "null" ]
NaN == [ t |-> "NaN" ]
Str(s) == [ t |-> "string", s |-> s ]
JsNumber(whole, e8) == [ t |-> "number", whole |-> whole, e8 |-> e8 ]
\* an array of `length` objects
JsArray(length) == [ t |-> "array", length |-> length ]

\* the number h/100, and the number m/1000000
Hundredths(h) == JsNumber(h \div 100, (h % 100) * Micro)
FromMicro(m) == JsNumber(m \div Micro, (m % Micro) * 100)
\* a number in millionths
MicroOf(x) == x.whole * Micro + x.e8 \div 100

\* analysis.f
Field(analysis, f) == IF f \in DOMAIN analysis THEN analysis[f] ELSE Undefined

\* ToBoolean: undefined, null, 0, NaN and "" are falsy
IsTruthy(x) ==
  CASE x.t = "number" -> x.whole # 0 \/ x.e8 # 0
    [] x.t = "string" -> x.s # ""
    [] x.t = "array" -> TRUE
    [] OTHER -> FALSE

\* Number::toString of a non-negative number
Digit(d) == SubSeq("0123456789", d + 1, d + 1)

RECURSIVE NatToString(_)
NatToString(n) ==
  IF n < 10 THEN Digit(n) ELSE NatToString(n \div 10) \o Digit(n % 10)

RECURSIVE FractionToString(_, _)
FractionToString(f, unit) ==
  IF f = 0 THEN ""
  ELSE Digit(f \div unit) \o FractionToString(f % unit, unit \div 10)

NumberToString(x) ==
  NatToString(x.whole)
    \o (IF x.e8 = 0 THEN "" ELSE "." \o FractionToString(x.e8, E8 \div 10))

\* ToString of a number or a string (JavaScript)
JsToString(x) == IF x.t = "string" THEN x.s ELSE NumberToString(x)

\* StringToNumber for decimal literals without sign or exponent: digits
\* with at most one point; "" is 0; anything else is NaN
IsDigit(c) == \E d \in 0..9 : Digit(d) = c
DigitValue(c) == CHOOSE d \in 0..9 : Digit(d) = c

RECURSIVE ParseNat(_)
ParseNat(s) ==
  IF s = "" THEN 0
  ELSE 10 * ParseNat(SubSeq(s, 1, Len(s) - 1)) + DigitValue(SubSeq(s, Len(s), Len(s)))

RECURSIVE Pow10(_)
Pow10(n) == IF n = 0 THEN 1 ELSE 10 * Pow10(n - 1)

StringToNumber(s) ==
  LET points == { i \in 1..Len(s) : SubSeq(s, i, i) = "." }
      digits == { i \in 1..Len(s) : IsDigit(SubSeq(s, i, i)) }
  IN  IF s = "" THEN JsNumber(0, 0)
      ELSE IF points \cup digits # 1..Len(s) \/ digits = {}
                \/ Cardinality(points) > 1
      THEN NaN
      ELSE IF points = {} THEN JsNumber(ParseNat(s), 0)
      ELSE LET p == CHOOSE i \in points : TRUE
               decimals == Len(s) - p
           IN  IF decimals > 8 THEN NaN
               ELSE JsNumber(ParseNat(SubSeq(s, 1, p - 1)),
                             ParseNat(SubSeq(s, p + 1, Len(s)))
                               * Pow10(8 - decimals))

\* ToNumber
ToNumber(x) ==
  CASE x.t = "number" -> x
    [] x.t = "string" -> StringToNumber(x.s)
    [] x.t = "null" -> JsNumber(0, 0)
    [] OTHER -> NaN

\* a + b: the sum of two numbers, the concatenation when one is a string
JsPlus(a, b) ==
  IF a.t = "number" /\ b.t = "number"
  THEN FromMicro(MicroOf(a) + MicroOf(b))
  ELSE Str(JsToString(a) \o JsToString(b))

\* (analysis.f || 1)
OrOne_OrZero(analysis, f) ==
  IF IsTruthy(Field(analysis, f)) THEN Field(analysis, f) ELSE JsNumber(0, 0)

OrOne(analysis, f) ==
  IF IsTruthy(Field(analysis, f)) THEN Field(analysis, f) ELSE Hundredths(100)

FactorNames == << "complexity", "condition", "access", "materialQuality" >>

\* the four operands of the sum, in source order
Operands(analysis) == [ i \in 1..4 |-> OrOne(analysis, FactorNames[i]) ]

\* part_002 310-315: ((c || 1) + (d || 1) + (a || 1) + (m || 1)) / 4.  The
\* numbers of the model are multiples of 0.0001, so the quotient is exact
\* in millionths.
avgMultiplier_OverThree(analysis) ==
  LET o == Operands(analysis)
      sum == ToNumber(JsPlus(JsPlus(JsPlus(o[1], o[2]), o[3]), o[4]))
  IN  IF sum.t = "NaN" THEN NaN ELSE FromMicro(MicroOf(sum) \div 3)

avgMultiplier(analysis) ==
  LET o == Operands(analysis)
      sum == ToNumber(JsPlus(JsPlus(JsPlus(o[1], o[2]), o[3]), o[4]))
  IN  IF sum.t = "NaN" THEN NaN ELSE FromMicro(MicroOf(sum) \div 4)

\* the operands in hundredths when all four are numbers, << >> otherwise
OperandKey(analysis) ==
  LET o == Operands(analysis)
  IN  IF \A i \in 1..4 : o[i].t = "number"
      THEN [ i \in 1..4 |-> MicroOf(o[i]) \div 10000 ]
      ELSE << >>

\* Math.round(n / d): the nearest integer, a tie going up
RoundHalfUp(n, d) == (2 * n + d) \div (2 * d)
IsTie(n, d) == (2 * n) % (2 * d) = d

\* Binary floating point: where the exact value of avgMultiplier * 100 is
\* k + 0.5, the IEEE 754 double the expression evaluates to can lie just
\* below it, and Math.round then yields k.  These are the operand lists of
\* the model's numbers for which it does (computed in binary64 arithmetic,
\* additions in source order).
TimesHundredBelowHalf ==
  {
    << 50, 50, 101, 101 >>, << 50, 101, 50, 101 >>, << 50, 101, 101, 150 >>,
    << 50, 101, 150, 101 >>, << 50, 150, 101, 101 >>, << 100, 100, 101, 101 >>,
    << 100, 101, 100, 101 >>, << 100, 101, 101, 100 >>, << 101, 50, 50, 101 >>,
    << 101, 50, 101, 150 >>, << 101, 50, 150, 101 >>, << 101, 100, 100, 101 >>,
    << 101, 100, 101, 100 >>, << 101, 101, 50, 150 >>, << 101, 101, 100, 100 >>,
    << 101, 101, 150, 50 >>, << 101, 101, 150, 150 >>, << 101, 150, 50, 101 >>,
    << 101, 150, 101, 50 >>, << 101, 150, 101, 150 >>, << 101, 150, 150, 101 >>,
    << 150, 50, 101, 101 >>, << 150, 101, 50, 101 >>, << 150, 101, 101, 50 >>,
    << 150, 101, 101, 150 >>, << 150, 101, 150, 101 >>, << 150, 150, 101, 101 >> }

\* the same for (1 - Math.abs(1 - avgMultiplier)) * 100
ConfidenceBelowHalf ==
  {
    << 50, 50, 101, 101 >>, << 50, 101, 50, 101 >>, << 101, 50, 50, 101 >> }

\* part_002 320: Math.round(avgMultiplier * 100), the adjustment in
\* hundredths
RoundedTimesHundred(analysis) ==
  LET avg == MicroOf(avgMultiplier(analysis))
  IN  IF IsTie(avg, 10000) /\ OperandKey(analysis) \in TimesHundredBelowHalf
      THEN RoundHalfUp(avg, 10000) - 1
      ELSE RoundHalfUp(avg, 10000)

\* part_002 317: Math.round((1 - Math.abs(1 - avgMultiplier)) * 100)
Abs(x) == IF x < 0 THEN -x ELSE x

confidence_NoAbs(analysis) ==
  RoundHalfUp(Micro - (Micro - MicroOf(avgMultiplier(analysis))), 10000)

confidence(analysis) ==
  LET avg == MicroOf(avgMultiplier(analysis))
      nearness == Micro - Abs(Micro - avg)
  IN  IF IsTie(nearness, 10000) /\ OperandKey(analysis) \in ConfidenceBelowHalf
      THEN RoundHalfUp(nearness, 10000) - 1
      ELSE RoundHalfUp(nearness, 10000)

Max(a, b) == IF a >= b THEN a ELSE b

\* part_002 321: Math.max(0, Math.min(100, confidence));
\* part_003 2075: Math.min(95, Math.max(60, confidence))
Clamp_UpperOnly(v, c) ==
  IF v = "band" THEN Min(95, c) ELSE Min(100, c)

Clamp(v, c) ==
  IF v = "band" THEN Min(95, Max(60, c)) ELSE Max(0, Min(100, c))

\* analysis.materials || []
MaterialsOrEmpty(analysis) ==
  IF IsTruthy(Field(analysis, "materials")) THEN analysis.materials
  ELSE JsArray(0)

\* part_002 319-331, part_003 2073-2079: `result`; NaN propagates through
\* Math.round, Math.min and Math.max (res.json writes it as null)
ComposeAverage(v, analysis) ==
  IF avgMultiplier(analysis).t = "NaN"
  THEN [ status |-> 200, adjustment |-> NaN, confidence |-> NaN,
         materials |-> MaterialsOrEmpty(analysis) ]
  ELSE [ status |-> 200,
         adjustment |-> Hundredths(RoundedTimesHundred(analysis)),
         confidence |-> JsNumber(Clamp(v, confidence(analysis)), 0),
         materials |-> MaterialsOrEmpty(analysis) ]

\* server.js 113-117: complexity * condition * access * materialQuality,
\* each operand converted by ToNumber; the product of the four numbers is
\* carried exactly (in two halves, to stay within 32-bit integers)
overallAdjustment(analysis) ==
  LET n == [ i \in 1..4 |-> ToNumber(Field(analysis, FactorNames[i])) ]
  IN  IF \E i \in 1..4 : n[i].t = "NaN" THEN NaN
      ELSE LET h == [ i \in 1..4 |-> MicroOf(n[i]) \div 10000 ]
               x == h[1] * h[2]
               y == h[3] * h[4]
               x1 == x \div 10000
               x0 == x % 10000
               y1 == y \div 10000
               y0 == y % 10000
               mid == x1 * y0 + x0 * y1
               low == (mid % 10000) * 10000 + x0 * y0
           IN  JsNumber(x1 * y1 + mid \div 10000 + low \div E8, low % E8)

\* server.js 121: (analysis.materials || []).map(...) throws a TypeError
\* when materials is a truthy value that is not an array
MaterialsMapThrows(analysis) ==
  /\ IsTruthy(Field(analysis, "materials"))
  /\ analysis.materials.t # "array"

\* server.js 129-133: the response; the catch at 143 answers a throw
\* with 500 { error, message }
ComposeProduct(analysis) ==
  IF MaterialsMapThrows(analysis)
  THEN [ status |-> 500, error |-> "Failed to analyze photos" ]
  ELSE [ status |-> 200,
         adjustment |-> overallAdjustment(analysis),
         confidence |-> IF IsTruthy(Field(analysis, "confidence"))
                        THEN analysis.confidence ELSE JsNumber(75, 0),
         materials |-> MaterialsOrEmpty(analysis) ]

Compose(v, analysis) ==
  IF v = "product" THEN ComposeProduct(analysis) ELSE ComposeAverage(v, analysis)

\* part_002 299-307 and 341-348: the fallback body sent with status 500
Fallback(error) ==
  [ status |-> 500, error |-> error, fallback |-> TRUE,
    adjustment |-> Hundredths(100), confidence |-> JsNumber(0, 0) ]

\* what the handler sends when JSON.parse fails or no JSON is found:
\* part_002 299-307 the fallback, server.js 108-109 an error only
ParseFailure_NeutralConfidence(v) ==
  IF v = "product"
  THEN [ status |-> 500, error |-> "Failed to parse AI response" ]
  ELSE [ status |-> 500, error |-> "Failed to parse AI response",
         fallback |-> TRUE, adjustment |-> Hundredths(100),
         confidence |-> JsNumber(75, 0) ]

ParseFailure(v) ==
  IF v = "product"
  THEN [ status |-> 500, error |-> "Failed to parse AI response" ]
  ELSE Fallback("Failed to parse AI response")

\* what the outer catch sends: part_002 338-349, part_003 2081-2089 the
\* fallback, server.js 142-148 an error only
CallFailure(v) ==
  CASE v = "product" -> [ status |-> 500, error |-> "Failed to analyze photos" ]
    [] v = "band" -> Fallback("Analysis failed")
    [] OTHER -> Fallback("Photo analysis failed")

(***************************************************************************)
(* Inputs of the photo analysis.                                           *)
(***************************************************************************)
ComposeVariants == { "avg", "band", "product" }

\* images.length of the request body
ImageCounts == { 0, 1, 11 }

\* what a factor of the parsed reply can be: absent (not in the record),
\* null, a number, a string
FactorValues ==
  { JsNull, Str("high"), Str("1.2") }
    \cup { Hundredths(h) : h \in { 0, 50, 100, 101, 150, 300 } }

FactorParts(f) == { NoFields } \cup { (f :> x) : x \in FactorValues }

\* the confidence and the materials of the parsed reply
OtherParts ==
  { NoFields,
    [ confidence |-> JsNumber(85, 0), materials |-> JsArray(2) ],
    [ confidence |-> JsNumber(150, 0) ],
    [ materials |-> Str("see notes") ] }

Analyses ==
  { c @@ d @@ a @@ m @@ o :
      c \in FactorParts("complexity"), d \in FactorParts("condition"),
      a \in FactorParts("access"), m \in FactorParts("materialQuality"),
      o \in OtherParts }

\* what `await openai.chat.completions.create` leads to: a rejected call,
\* a text without parsable JSON, or a text holding the JSON of an analysis
NoReply == [ kind |-> "none" ]

VisionReplies ==
  { [ kind |-> "throw" ], [ kind |-> "unparsable" ] }
    \cup { [ kind |-> "json", analysis |-> a ] : a \in Analyses }

(***************************************************************************)
(* The photo analysis as a state machine.  It uses variant (the version of *)
(* the handler), pc, req, response (the reply of the vision model) and     *)
(* res; searchResults belongs to the search handler and stays as it is.    *)
(***************************************************************************)
ComposeInit ==
  /\ variant \in ComposeVariants
  /\ pc = "idle"
  /\ req = [ images |-> 0, jobType |-> "" ]
  /\ searchResults = NoResponse
  /\ response = NoReply
  /\ res = NoRes
  /\ dailyUsage = << >>
  /\ estimates = 0

\* part_002 202-232 (images: 1 to 3, jobType a non-empty string);
\* server.js 32-38 (images: 1 to 10)
RequestRejected(v, images, jobType) ==
  \/ images = 0
  \/ images > (IF v = "product" THEN 10 ELSE 3)
  \/ v # "product" /\ jobType = ""

AnalyzeRequest(images, jobType) ==
  /\ pc = "idle"
  /\ req' = [ images |-> images, jobType |-> jobType ]
  /\ IF RequestRejected(variant, images, jobType)
     THEN res' = ErrorResponse(400) /\ pc' = "done"
     ELSE res' = res /\ pc' = "vision"
  /\ UNCHANGED << variant, searchResults, response,
                  dailyUsage, estimates >>

\* the continuation after the vision call, up to the parsed analysis:
\* part_002 288-308, server.js 97-110
ParseReply ==
  /\ pc = "vision"
  /\ \E reply \in VisionReplies :
       /\ response' = reply
       /\ CASE reply.kind = "throw" ->
                 res' = CallFailure(variant) /\ pc' = "done"
            [] reply.kind = "unparsable" ->
                 res' = ParseFailure(variant) /\ pc' = "done"
            [] OTHER ->
                 res' = res /\ pc' = "compose"
  /\ UNCHANGED << variant, req, searchResults,
                  dailyUsage, estimates >>

\* the rest of the same continuation: part_002 310-336, server.js 112-140
ComposeStep ==
  /\ pc = "compose"
  /\ res' = Compose(variant, response.analysis)
  /\ pc' = "done"
  /\ UNCHANGED << variant, req, searchResults, response,
                  dailyUsage, estimates >>

ComposeNext ==
  \/ \E n \in ImageCounts, j \in { "", "painting-room" } : AnalyzeRequest(n, j)
  \/ ParseReply
  \/ ComposeStep

ComposeSpec == ComposeInit /\ [][ComposeNext]_vars

(***************************************************************************)
(* Vocabulary of the properties of the photo analysis.  These definitions  *)
(* restate what the specification says about compose; they use none of    *)
(* the handler's operators.                                                *)
(***************************************************************************)
\* the reply was parsed into an assessment and the handler answered
Composed == pc = "done" /\ response.kind = "json"

Assessment == response.analysis

Factors == { "complexity", "condition", "access", "materialQuality" }

IsNumber(x) == x.t = "number"
\* a number with at most two decimals, and its value in hundredths
IsHundredths(x) == IsNumber(x) /\ x.e8 % Micro = 0
InHundredths(x) == x.whole * 100 + x.e8 \div Micro

Present(a, f) == f \in DOMAIN a
Numeric(a, f) == Present(a, f) /\ IsNumber(a[f])

\* a factor in hundredths, 1.0 standing for an absent or non-numeric one
SpecFactor(a, f) == IF Numeric(a, f) THEN InHundredths(a[f]) ELSE 100

\* a factor in hundredths, 1.0 standing for an absent one, null and 0
FalsyIsOne(a, f) ==
  IF Numeric(a, f) /\ InHundredths(a[f]) # 0 THEN InHundredths(a[f]) ELSE 100

\* every factor of the assessment is a number, null or absent
PlainAssessment(a) ==
  \A f \in Factors : Present(a, f) => a[f].t \in { "number", "null" }

FalsyIsOneSum(a) ==
  FalsyIsOne(a, "complexity") + FalsyIsOne(a, "condition")
    + FalsyIsOne(a, "access") + FalsyIsOne(a, "materialQuality")

Distance(x, y) == IF x >= y THEN x - y ELSE y - x

\* k/100 is a multiple of 0.01 nearest to the mean sum/400
NearestHundredth(k, sum) == Distance(4 * k, sum) <= 2

\* c is an integer nearest to (1 - |1 - sum/400|) * 100
NearestConfidence(c, sum) == Distance(4 * c, 400 - Distance(400, sum)) <= 2

\* the assessment with 1.0 in place of every absent or non-numeric factor
Sanitized(a) ==
  [ f \in DOMAIN a \cup Factors |->
      IF f \in Factors THEN Hundredths(SpecFactor(a, f)) ELSE a[f] ]

(***************************************************************************)
(* C13.  compose substitutes 1.0 for each of complexity, condition, access *)
(* and materialQuality that is absent or non-numeric, and uses every       *)
(* present numeric value unchanged; the result never depends on a          *)
(* non-numeric value.                                                      *)
(***************************************************************************)
\* the answer is the one the handler gives for the same assessment with
\* 1.0 in place of its absent and non-numeric factors, and (C14, C15) that
\* answer is a number
C13_AsStated ==
  Composed =>
    /\ res = Compose(variant, Sanitized(Assessment))
    /\ res.status = 200 => IsNumber(res.adjustment)

(***************************************************************************)
(* C14.  compose returns adjustment equal to the arithmetic mean of the    *)
(* four (defaulted) factors, (complexity + condition + access +            *)
(* materialQuality) / 4, rounded to 2 decimal places.                      *)
(***************************************************************************)
\* the statement as the specification makes it, for an assessment that has
\* the four factors as numbers (0 counted as 1.0)
C14_AsStated ==
  (Composed /\ res.status = 200
     /\ \A f \in Factors : Numeric(Assessment, f)) =>
    /\ IsHundredths(res.adjustment)
    /\ NearestHundredth(InHundredths(res.adjustment), FalsyIsOneSum(Assessment))

\* the product of four factors given in hundredths fits 32 bits
ProductFits(h) ==
  h[3] * h[4] = 0 \/ h[1] * h[2] <= 2147483647 \div (h[3] * h[4])

FactorsInHundredths(a) ==
  << InHundredths(a.complexity), InHundredths(a.condition),
     InHundredths(a.access), InHundredths(a.materialQuality) >>

\* the handlers that average return a nearest multiple of 0.01 to the mean
\* (null and 0 counted as 1.0 like an absent factor); the handlers that
\* multiply return the product of the four factors as received, not rounded
\* and with no default: not a number when a factor is absent
C14_Adjustment ==
  (Composed /\ res.status = 200) =>
    /\ (variant # "product" /\ PlainAssessment(Assessment)) =>
         /\ IsHundredths(res.adjustment)
         /\ NearestHundredth(InHundredths(res.adjustment),
                             FalsyIsOneSum(Assessment))
    /\ (variant = "product" /\ \E f \in Factors : ~Present(Assessment, f)) =>
         res.adjustment.t = "NaN"
    /\ (variant = "product" /\ \A f \in Factors : Numeric(Assessment, f)) =>
         /\ IsNumber(res.adjustment)
         /\ ProductFits(FactorsInHundredths(Assessment)) =>
              LET h == FactorsInHundredths(Assessment)
              IN  res.adjustment.whole * E8 + res.adjustment.e8
                    = h[1] * h[2] * h[3] * h[4]

\* an averaging handler returned a mean that lies halfway between two
\* hundredths as the lower of them, and its factors are not all alike
C14_Witness ==
  /\ Composed /\ res.status = 200 /\ variant = "avg"
  /\ \A f \in Factors : Numeric(Assessment, f)
  /\ Assessment.complexity # Assessment.condition
  /\ 4 * InHundredths(res.adjustment) + 2 = FalsyIsOneSum(Assessment)

(***************************************************************************)
(* C15.  compose returns confidence = round((1 - |1 - average|) * 100)     *)
(* before clamping: it equals 100 exactly when the average factor is 1.0,  *)
(* is the same for averages 1+d and 1-d, and decreases as |1 - average|    *)
(* grows; in particular four factors of 1.5 give adjustment 1.5 and        *)
(* confidence 50.                                                          *)
(***************************************************************************)
AllFactorsAre(a, h) ==
  \A f \in Factors : Numeric(a, f) /\ InHundredths(a[f]) = h

SpecClamp(v, c) ==
  IF v = "band" THEN (IF c < 60 THEN 60 ELSE IF c > 95 THEN 95 ELSE c)
  ELSE (IF c < 0 THEN 0 ELSE IF c > 100 THEN 100 ELSE c)

\* the assessment with every factor f replaced by 2 - f: its mean is
\* 2 minus the mean; defined for the factors 0.5, 1.0 and 1.5
Mirrorable(a) ==
  \A f \in Factors : Numeric(a, f) /\ InHundredths(a[f]) \in { 50, 100, 150 }

Mirror(a) ==
  [ f \in DOMAIN a |->
      IF f \in Factors THEN Hundredths(200 - InHundredths(a[f])) ELSE a[f] ]

C16_AsStated ==
  (Composed /\ res.status = 200 /\ PlainAssessment(Assessment)) =>
    /\ IsNumber(res.confidence) /\ res.confidence.e8 = 0
    /\ res.confidence.whole \in 0..100
    /\ \E c \in -200..100 :
         /\ NearestConfidence(c, FalsyIsOneSum(Assessment))
         /\ res.confidence.whole = (IF c < 0 THEN 0 ELSE c)

\* the confidence of the reply itself, 75 standing for an absent one
ReplyConfidence(a) ==
  IF Present(a, "confidence") /\ a.confidence # JsNumber(0, 0)
  THEN a.confidence ELSE JsNumber(75, 0)

\* the averaging handler returns an integer in 0..100, 0 for a computed
\* confidence below 0 and the computed confidence itself otherwise; the
\* handler with the 60..95 clamp returns an integer in 60..95, 60 for a
\* computed confidence below 60 and 95 for one above 95; the multiplying
\* handlers return the confidence of the reply, or 75, as they received it
C16_ConfidenceRange ==
  (Composed /\ res.status = 200 /\ PlainAssessment(Assessment)) =>
    /\ variant # "product" =>
         /\ IsNumber(res.confidence) /\ res.confidence.e8 = 0
         /\ \E c \in -200..100 :
              /\ NearestConfidence(c, FalsyIsOneSum(Assessment))
              /\ variant = "avg" =>
                   /\ res.confidence.whole \in 0..100
                   /\ res.confidence.whole = (IF c < 0 THEN 0 ELSE c)
              /\ variant = "band" =>
                   /\ res.confidence.whole \in 60..95
                   /\ res.confidence.whole =
                        (IF c < 60 THEN 60 ELSE IF c > 95 THEN 95 ELSE c)
    /\ variant = "product" => res.confidence = ReplyConfidence(Assessment)

\* far outside the nominal range: four factors of 3.0, whose computed
\* confidence is -100, answered with confidence 0
C16_Witness ==
  /\ Composed /\ res.status = 200 /\ variant = "avg"
  /\ AllFactorsAre(Assessment, 300)
  /\ res.confidence = JsNumber(0, 0)

(***************************************************************************)
(* C17.  When all four factors equal 1 the outcome is exactly              *)
(* {adjustment: 1.0, confidence: 100}, and when all four are absent the    *)
(* defaults produce that same neutral outcome.                             *)
(***************************************************************************)
AllFactorsAbsent(a) == \A f \in Factors : ~Present(a, f)

\* the statement as the specification makes it
C17_AsStated ==
  (Composed /\ (AllFactorsAre(Assessment, 100) \/ AllFactorsAbsent(Assessment))) =>
    /\ res.status = 200
    /\ res.adjustment = Hundredths(100)
    /\ res.confidence = JsNumber(100, 0)

\* four factors of 1 and four absent factors both give adjustment 1.0 with
\* confidence 100 in the averaging handler and with confidence 95 in the
\* handler with the 60..95 clamp; in the multiplying handlers four factors
\* of 1 give adjustment 1 with the confidence of the reply, and four absent
\* factors give an adjustment that is not a number
C17_NeutralOutcome ==
  (Composed /\ res.status = 200
     /\ (AllFactorsAre(Assessment, 100) \/ AllFactorsAbsent(Assessment))) =>
    /\ variant = "avg" =>
         /\ res.adjustment = Hundredths(100)
         /\ res.confidence = JsNumber(100, 0)
    /\ variant = "band" =>
         /\ res.adjustment = Hundredths(100)
         /\ res.confidence = JsNumber(95, 0)
    /\ variant = "product" =>
         /\ res.confidence = ReplyConfidence(Assessment)
         /\ AllFactorsAre(Assessment, 100) => res.adjustment = Hundredths(100)
         /\ AllFactorsAbsent(Assessment) => res.adjustment.t = "NaN"

\* the averaging handler answered an assessment without any factor
C17_Witness ==
  /\ Composed /\ variant = "avg"
  /\ AllFactorsAbsent(Assessment)
  /\ res.status = 200
  /\ res.adjustment = Hundredths(100)
  /\ res.confidence = JsNumber(100, 0)

(***************************************************************************)
(* C18.  compose is total and bounded: for any parsed object carrying zero *)
(* or more of the four numeric factor fields it returns normally, with     *)
(* adjustment a finite positive number and confidence within the clamp     *)
(* range.                                                                  *)
(***************************************************************************)
\* every factor the object carries is a number
NumericFactorsOnly(a) == \A f \in Factors : Present(a, f) => IsNumber(a[f])

Positive(x) == IsNumber(x) /\ (x.whole > 0 \/ (x.whole = 0 /\ x.e8 > 0))

\* the statement as the specification makes it
C18_AsStated ==
  (Composed /\ NumericFactorsOnly(Assessment)) =>
    /\ res.status = 200
    /\ Positive(res.adjustment)
    /\ IsNumber(res.confidence) /\ res.confidence.e8 = 0
    /\ res.confidence.whole \in 0..100

(***************************************************************************)
(* C19.  When the vision response cannot be parsed into an assessment, the *)
(* composition is not executed and the handler returns a fixed fallback    *)
(* with adjustment 1.0 and confidence 0.                                   *)
(***************************************************************************)
Unparsable == response.kind = "unparsable"

C22_RelaxedNoStricter ==
  /\ RELAXED_MIN_RATING <= MIN_RATING
  /\ RELAXED_MIN_REVIEWS <= MIN_REVIEWS
  /\ RELAXED_MIN_RATING <= STRICT_MIN_RATING
  /\ RELAXED_MIN_REVIEWS <= STRICT_MIN_REVIEWS
  /\ THIRD_RELAXED_RATING <= THIRD_MIN_RATING
  /\ (Answered /\ ReportsRelaxed /\ "minimumRating" \in DOMAIN res.filters) =>
       /\ res.filters.minimumRating <= 40
       /\ res.filters.minimumReviews <= StrictReviewMinimum
       /\ \A i \in StrictPositions :
            MeetsTier(Candidates[i], res.filters.minimumRating,
                      res.filters.minimumReviews)

\* part_002 answered with the relaxed tier and reported its thresholds
C22_Witness ==
  /\ Answered /\ variant = "part002" /\ ReportsRelaxed
  /\ res.filters.minimumRating = 35 /\ res.filters.minimumReviews = 3
  /\ Len(Ranked) > 0

(***************************************************************************)
(* C23.  Scenario: for candidates Acme Painters (rating 4.8, 50 reviews,   *)
(* open, website, phone) and Bob's Decor (rating 3.6, 4 reviews, closed,   *)
(* no website, no phone), keyword "painter decorator", topN 5 and a        *)
(* minimum acceptable strict count of 3, the relaxed tier is used and the  *)
(* output contains both candidates, each with qualityVerified=false.       *)
(***************************************************************************)
IsAcme(p) ==
  /\ p.name = "Acme Painters" /\ RatingOf(p) = 48 /\ ReviewCountOf(p) = 50
  /\ "opening_hours" \in DOMAIN p /\ p.opening_hours.open_now = TRUE
  /\ "website" \in DOMAIN p /\ "formatted_phone_number" \in DOMAIN p

IsBob(p) ==
  /\ p.name = "Bob's Decor" /\ RatingOf(p) = 36 /\ ReviewCountOf(p) = 4
  /\ "opening_hours" \in DOMAIN p /\ p.opening_hours.open_now = FALSE
  /\ "website" \notin DOMAIN p /\ "formatted_phone_number" \notin DOMAIN p

\* the handler ranked exactly these two candidates for that keyword
Scenario ==
  /\ Answered
  /\ JobKeyword = "painter decorator"
  /\ Len(Candidates) = 2
  /\ \E i, j \in 1..2 : i # j /\ IsAcme(Candidates[i]) /\ IsBob(Candidates[j])

Returned(name) == \E i \in 1..Len(Ranked) : Ranked[i].name = name

C24_ReviewComponent ==
  Answered =>
    \A i \in 1..Len(Ranked) :
      LET n == Ranked[i].totalReviews
          component == ReviewScore(Ranked[i])
      IN  /\ n = 0 => component = 0 /\ Ranked[i].scoreBreakdown.reviews = 0
          /\ n >= 99 =>
               component = 25 * Micro /\ Ranked[i].scoreBreakdown.reviews = 250
          /\ n < 99 =>
               component < 25 * Micro /\ Ranked[i].scoreBreakdown.reviews < 250
          /\ \A m \in 0..n :
               LET below == ReviewScore([ totalReviews |-> m ])
               IN  /\ below <= component
                   /\ m < 99 => below < 25 * Micro
                   /\ m >= 99 => below = 25 * Micro

\* an answer with a contractor of 98 reviews, just below the cap, and one
\* with 99 reviews, at the cap, are both reached; this is the first
C24_Witness ==
  /\ Answered
  /\ \E i \in 1..Len(Ranked) :
       /\ Ranked[i].totalReviews = 98
       /\ Ranked[i].scoreBreakdown.reviews = 249

(***************************************************************************)
(* C25.  In every search-contractors response, every returned contractor   *)
(* satisfies the thresholds reported in the response's filter metadata:    *)
(* rating >= filters.minimumRating and totalReviews >=                     *)
(* filters.minimumReviews, and where the metadata has a relaxed flag,      *)
(* relaxed is true exactly when the returned set was produced by the       *)
(* relaxed filter.                                                         *)
(***************************************************************************)
MeetsReported(c) ==
  "minimumRating" \in DOMAIN res.filters =>
    /\ c.rating >= res.filters.minimumRating
    /\ c.totalReviews >= res.filters.minimumReviews

\* the positions passing the relaxed and the first filter of the handler
RelaxedOf(v) ==
  IF v = "part003c" THEN PositionsMeeting(Candidates, 30, 0)
  ELSE RelaxedPositions

FirstOf(v) ==
  IF v = "part003c"
  THEN { i \in PositionsMeeting(Candidates, 35, 5) :
           RatingOf(Candidates[i]) > 0 }
  ELSE StrictPositions

\* the returned set was produced by the relaxed (resp. first) filter
ProducedBy(positions) ==
  /\ \A i \in 1..Len(Ranked) : Ranked[i].placeId \in positions
  /\ Len(Ranked) = Least(5, Cardinality(positions))

\* the statement as the specification makes it
C25_AsStated ==
  Answered =>
    /\ \A i \in 1..Len(Ranked) : MeetsReported(Ranked[i])
    /\ "relaxed" \in DOMAIN res.filters =>
         IF res.filters.relaxed THEN ProducedBy(RelaxedOf(variant))
         ELSE ProducedBy(FirstOf(variant))

\* as stated in part_002 and in the handlers of part_003; src/server.js
\* reports its thresholds and no flag, and its contractors meet them when 3
\* or more candidates pass; with fewer it returns the first five candidates
\* whatever their rating and reviews
C25_FiltersReported ==
  Answered =>
    /\ variant # "server" =>
         /\ \A i \in 1..Len(Ranked) : MeetsReported(Ranked[i])
         /\ "relaxed" \in DOMAIN res.filters
         /\ IF res.filters.relaxed THEN ProducedBy(RelaxedOf(variant))
            ELSE ProducedBy(FirstOf(variant))
    /\ variant = "server" =>
         /\ "relaxed" \notin DOMAIN res.filters
         /\ res.qualityFiltered = Cardinality(StrictPositions)
         /\ IF res.qualityFiltered >= 3
            THEN /\ \A i \in 1..Len(Ranked) : MeetsReported(Ranked[i])
                 /\ ProducedBy(StrictPositions)
            ELSE ProducedBy({ i \in 1..Len(Candidates) : i <= 5 })

\* a relaxed answer whose contractors meet the relaxed thresholds and not
\* all the strict ones
C25_Witness ==
  /\ Answered /\ variant = "part003b" /\ ReportsRelaxed
  /\ \E i \in 1..Len(Ranked) :
       Ranked[i].rating < 40 /\ Ranked[i].rating >= 35

(***************************************************************************)
(* C26.  Relaxation never loses a candidate: for every candidate list, the *)
(* set passing the relaxed filter contains every candidate passing the     *)
(* strict filter, so whenever the relaxed tier is used the filtered set is *)
(* at least as large as the strict set it replaced.                        *)
(***************************************************************************)
C26_RelaxationKeepsStrict ==
  (Answered /\ variant # "server") =>
    /\ FirstOf(variant) \subseteq RelaxedOf(variant)
    /\ ReportsRelaxed =>
         /\ \A i \in FirstOf(variant) :
              \E j \in 1..Len(Selected) : Selected[j].placeId = i
         /\ Len(Selected) >= Cardinality(FirstOf(variant))

\* the relaxed tier replaced a strict set that was not empty
C26_Witness ==
  /\ Answered /\ variant = "part003c" /\ ReportsRelaxed
  /\ Cardinality(FirstOf(variant)) = 2
  /\ Len(Selected) > 2

(***************************************************************************)
(* C27.  The returned contractors are the best-scoring ones: no candidate  *)
(* that passed the tier filter but was left out of the response has a      *)
(* matchScore strictly greater than a contractor that was returned.        *)
(***************************************************************************)
\* the candidate at position i as the handler scores it
ScoredCandidate(i) ==
  Score(IF variant = "server" THEN MapServer(Candidates[i])
        ELSE IF variant = "part002" THEN MapPart002(Candidates[i], TRUE)
        ELSE IF variant = "part003c" THEN MapThird(Candidates[i])
        ELSE MapTagged(Candidates[i], TRUE), JobKeyword)

ReturnedIds == { Ranked[i].placeId : i \in 1..Len(Ranked) }

NoneBetterLeftOut(positions) ==
  \A i \in positions \ ReturnedIds :
    \A j \in 1..Len(Ranked) :
      ScoredCandidate(i).matchScore <= Ranked[j].matchScore

\* the statement as the specification makes it
C27_AsStated == Answered => NoneBetterLeftOut(PassedTierFilter)

\* no candidate the handler selected for scoring is left out with a better
\* score than a returned one; in src/server.js with fewer than 3 candidates
\* passing the filter those are the first five candidates, not the ones
\* that passed
C27_BestAreReturned ==
  Answered =>
    /\ NoneBetterLeftOut(RankedFrom)
    /\ \A j \in 1..Len(Ranked) :
         Ranked[j].matchScore = ScoredCandidate(Ranked[j].placeId).matchScore

\* a candidate that passed the filter was left out, and a candidate that
\* stands after it in the list and scores better was returned
C27_Witness ==
  /\ Answered /\ variant # "server"
  /\ Len(Ranked) = 5
  /\ \E i \in PassedTierFilter \ ReturnedIds :
       \E j \in 1..5 :
         /\ Ranked[j].placeId > i
         /\ Ranked[j].matchScore > ScoredCandidate(i).matchScore

(***************************************************************************)
(* The daily usage counter (src/unnamed/part_002 31-38, 64-121) with the   *)
(* two handlers that use it: POST /api/save-estimate (657-808) and         *)
(* GET /api/usage-stats (824-842).  The DailyUsage collection has a unique *)
(* index on date; the model keeps today's document: dailyUsage is << >>    *)
(* when there is none and << doc >> otherwise.  Each call of the database  *)
(* is one atomic step of the database, between two awaits of a handler;    *)
(* a call can also be rejected.  Requests are the members of InFlight;     *)
(* each is a save-estimate or a usage-stats request.                       *)
(***************************************************************************)
DAILY_LIMIT == 100

\* { date: today, totalEstimates: 0 }: the default of getTodayUsage
DefaultUsage == [ totalEstimates |-> 0 ]

\* DailyUsage.findOne({ date: today }): the document, << >> for null
findOne(collection) == collection

\* DailyUsage.create({ date: today, totalEstimates: 0 }); the unique index
\* rejects a second document of the same date
CreateRejected(collection) == collection # << >>
create(collection) == << DefaultUsage >>

\* mutant: `upsert: true` is left out, nothing is updated without a document
findOneAndUpdateInc_NoUpsert(collection) ==
  IF collection = << >> THEN << >>
  ELSE << [ totalEstimates |-> collection[1].totalEstimates + 1 ] >>

\* DailyUsage.findOneAndUpdate({ date: today }, { $inc: { totalEstimates: 1 } },
\* { new: true, upsert: true }): one atomic update; the collection after it,
\* whose document is the one returned
findOneAndUpdateInc(collection) ==
  IF collection = << >> THEN << [ totalEstimates |-> 1 ] >>
  ELSE << [ totalEstimates |-> collection[1].totalEstimates + 1 ] >>

\* mutant: `>` where the code has `>=`
checkGlobalLimit_StrictlyGreater(usage) ==
  [ limitReached |-> usage.totalEstimates > DAILY_LIMIT,
    current      |-> usage.totalEstimates,
    limit        |-> DAILY_LIMIT,
    remaining    |-> Max(0, DAILY_LIMIT - usage.totalEstimates) ]

\* part_002 91-96: the object checkGlobalLimit returns for the usage it read
checkGlobalLimit(usage) ==
  [ limitReached |-> usage.totalEstimates >= DAILY_LIMIT,
    current      |-> usage.totalEstimates,
    limit        |-> DAILY_LIMIT,
    remaining    |-> Max(0, DAILY_LIMIT - usage.totalEstimates) ]

\* part_002 830-837: res.json of usage-stats; percentageUsed is a text with
\* one decimal, kept in tenths
UsageStatsResponse(globalLimit) ==
  [ status         |-> 200,
    current        |-> globalLimit.current,
    limit          |-> globalLimit.limit,
    remaining      |-> globalLimit.remaining,
    limitReached   |-> globalLimit.limitReached,
    percentageUsed |-> (globalLimit.current * 1000) \div globalLimit.limit ]

\* req.body of save-estimate: which of the validated fields it has
SaveBodies ==
  { [ required |-> TRUE,  inputType |-> "room", projectSize |-> "medium", areaQuantity |-> 0 ],
    [ required |-> TRUE,  inputType |-> "area", projectSize |-> "",       areaQuantity |-> 12 ],
    [ required |-> FALSE, inputType |-> "room", projectSize |-> "medium", areaQuantity |-> 0 ],
    [ required |-> TRUE,  inputType |-> "room", projectSize |-> "",       areaQuantity |-> 0 ],
    [ required |-> TRUE,  inputType |-> "room", projectSize |-> "huge",   areaQuantity |-> 0 ],
    [ required |-> TRUE,  inputType |-> "unit", projectSize |-> "",       areaQuantity |-> 0 ] }

\* part_002 675-706: the four checks that answer 400
SaveRejected(body) ==
  LET validSizes == { "small", "medium", "large", "extra-large" }
  IN  \/ ~body.required
      \/ body.inputType = "room" /\ body.projectSize = ""
      \/ body.projectSize # "" /\ body.projectSize \notin validSizes
      \/ body.inputType \in { "area", "unit" } /\ body.areaQuantity <= 0

\* how a call of the DailyUsage collection ends
DbOutcomes == { "ok", "error" }

UsageInit ==
  /\ variant = "part002"
  /\ pc = [ r \in InFlight |-> "idle" ]
  /\ req = [ r \in InFlight |-> [ kind |-> "none" ] ]
  /\ searchResults = NoResponse
  /\ response = [ r \in InFlight |-> [ awaited |-> "none" ] ]
  /\ res = [ r \in InFlight |-> NoRes ]
  \* today's usage document as the requests find it: none, a fresh one,
  \* or one around the daily limit
  /\ dailyUsage \in
       { << >> }
         \cup { << [ totalEstimates |-> n ] >> : n \in { 0, 1, 98, 99, 100 } }
  /\ estimates = 0

\* POST /api/save-estimate up to `await newEstimate.save()`
SaveEstimate(r, body) ==
  /\ pc[r] = "idle"
  /\ req' = [ req EXCEPT ![r] = [ kind |-> "save", body |-> body ] ]
  /\ IF SaveRejected(body)
     THEN /\ res' = [ res EXCEPT ![r] = ErrorResponse(400) ]
          /\ pc' = [ pc EXCEPT ![r] = "done" ]
     ELSE /\ res' = res
          /\ pc' = [ pc EXCEPT ![r] = "save" ]
  /\ UNCHANGED << variant, searchResults, response, dailyUsage, estimates >>

\* the continuation after `await newEstimate.save()`: on success the call
\* of incrementGlobalUsage up to its await, otherwise the catch (795-808)
SaveReturn(r, outcome) ==
  /\ pc[r] = "save"
  /\ IF outcome = "saved"
     THEN /\ estimates' = estimates + 1
          /\ pc' = [ pc EXCEPT ![r] = "increment" ]
          /\ res' = res
     ELSE /\ estimates' = estimates
          /\ pc' = [ pc EXCEPT ![r] = "done" ]
          /\ res' = [ res EXCEPT ![r] =
                        ErrorResponse(IF outcome = "ValidationError"
                                      THEN 400 ELSE 500) ]
  /\ response' = [ response EXCEPT ![r] = [ awaited |-> outcome ] ]
  /\ UNCHANGED << variant, req, searchResults, dailyUsage >>

\* the update of incrementGlobalUsage (109-113) and what follows it: the
\* value incrementGlobalUsage returns (usage.totalEstimates, or 0 from its
\* catch, also when usage is null) and the res.json of save-estimate
IncrementReturn(r, outcome) ==
  /\ pc[r] = "increment"
  /\ LET after == findOneAndUpdateInc(dailyUsage)
     IN  IF outcome = "error"
         THEN /\ dailyUsage' = dailyUsage
              /\ response' = [ response EXCEPT ![r] =
                                 [ awaited |-> outcome, returned |-> 0 ] ]
         ELSE /\ dailyUsage' = after
              /\ response' = [ response EXCEPT ![r] =
                                 [ awaited |-> outcome,
                                   returned |-> IF after = << >> THEN 0
                                                ELSE after[1].totalEstimates ] ]
  /\ res' = [ res EXCEPT ![r] = [ status |-> 200, success |-> TRUE ] ]
  /\ pc' = [ pc EXCEPT ![r] = "done" ]
  /\ UNCHANGED << variant, req, searchResults, estimates >>

\* GET /api/usage-stats up to the `await DailyUsage.findOne` of getTodayUsage
UsageStats(r) ==
  /\ pc[r] = "idle"
  /\ req' = [ req EXCEPT ![r] = [ kind |-> "stats" ] ]
  /\ pc' = [ pc EXCEPT ![r] = "findOne" ]
  /\ UNCHANGED << variant, searchResults, response, res, dailyUsage, estimates >>

\* the continuation after findOne: the document is returned to
\* checkGlobalLimit and the handler answers, or there is none and
\* getTodayUsage awaits DailyUsage.create, or the call was rejected and the
\* catch of getTodayUsage returns the default
FindOneReturn(r, outcome) ==
  /\ pc[r] = "findOne"
  /\ LET usage == findOne(dailyUsage)
     IN  IF outcome = "error"
         THEN /\ response' = [ response EXCEPT ![r] =
                                 [ awaited |-> outcome, usage |-> DefaultUsage ] ]
              /\ res' = [ res EXCEPT ![r] =
                            UsageStatsResponse(checkGlobalLimit(DefaultUsage)) ]
              /\ pc' = [ pc EXCEPT ![r] = "done" ]
         ELSE IF usage = << >>
         THEN /\ response' = [ response EXCEPT ![r] = [ awaited |-> "null" ] ]
              /\ res' = res
              /\ pc' = [ pc EXCEPT ![r] = "create" ]
         ELSE /\ response' = [ response EXCEPT ![r] =
                                 [ awaited |-> outcome, usage |-> usage[1] ] ]
              /\ res' = [ res EXCEPT ![r] =
                            UsageStatsResponse(checkGlobalLimit(usage[1])) ]
              /\ pc' = [ pc EXCEPT ![r] = "done" ]
  /\ UNCHANGED << variant, req, searchResults, dailyUsage, estimates >>

\* the continuation after create: the new document, or the default when the
\* call was rejected (by the unique index when another request has created
\* today's document meanwhile)
CreateReturn(r, outcome) ==
  /\ pc[r] = "create"
  /\ IF outcome = "error" \/ CreateRejected(dailyUsage)
     THEN /\ dailyUsage' = dailyUsage
          /\ response' = [ response EXCEPT ![r] =
                             [ awaited |-> "error", usage |-> DefaultUsage ] ]
          /\ res' = [ res EXCEPT ![r] =
                        UsageStatsResponse(checkGlobalLimit(DefaultUsage)) ]
     ELSE /\ dailyUsage' = create(dailyUsage)
          /\ response' = [ response EXCEPT ![r] =
                             [ awaited |-> outcome, usage |-> DefaultUsage ] ]
          /\ res' = [ res EXCEPT ![r] =
                        UsageStatsResponse(checkGlobalLimit(create(dailyUsage)[1])) ]
  /\ pc' = [ pc EXCEPT ![r] = "done" ]
  /\ UNCHANGED << variant, req, searchResults, estimates >>

UsageNext ==
  \/ \E r \in InFlight, body \in SaveBodies : SaveEstimate(r, body)
  \/ \E r \in InFlight, outcome \in { "saved", "ValidationError", "error" } :
       SaveReturn(r, outcome)
  \/ \E r \in InFlight, outcome \in DbOutcomes : IncrementReturn(r, outcome)
  \/ \E r \in InFlight : UsageStats(r)
  \/ \E r \in InFlight, outcome \in DbOutcomes : FindOneReturn(r, outcome)
  \/ \E r \in InFlight, outcome \in DbOutcomes : CreateReturn(r, outcome)

UsageSpec == UsageInit /\ [][UsageNext]_vars

(***************************************************************************)
(* Vocabulary of the properties of the usage counter.                      *)
(***************************************************************************)
\* today's totalEstimates, 0 when there is no document
UsageCount == IF dailyUsage = << >> THEN 0 ELSE dailyUsage[1].totalEstimates

IsSave(r) == req[r].kind = "save"
IsStats(r) == req[r].kind = "stats"

\* the save-estimate request r has stored its estimate
Stored(r) ==
  /\ IsSave(r)
  /\ pc[r] = "increment" \/ (pc[r] = "done" /\ res[r].status = 200)

\* the save-estimate request r was rejected or failed to store
NotStored(r) == IsSave(r) /\ pc[r] = "done" /\ res[r].status # 200

\* the save-estimate request r has stored its estimate and answered
Finished(r) == IsSave(r) /\ pc[r] = "done" /\ res[r].status = 200

\* the update of request r went through: it got a count back
Counted(r) == Finished(r) /\ response[r].returned > 0

CountsReturned == { response[r].returned : r \in { q \in InFlight : Counted(q) } }

\* k updates that lose nothing leave the counter k above where it was and
\* return the k values up to it, each once
NoLostUpdate ==
  LET k == Cardinality({ r \in InFlight : Counted(r) })
  IN  k > 0 => CountsReturned = (UsageCount - k + 1)..UsageCount

C28_CountedSaves ==
  /\ estimates = Cardinality({ r \in InFlight : Stored(r) })
  /\ \A r \in InFlight :
       /\ (Finished(r) /\ response[r].awaited = "ok") => Counted(r)
       /\ (Finished(r) /\ response[r].awaited = "error") =>
            response[r].returned = 0
       /\ NotStored(r) => "returned" \notin DOMAIN response[r]
  /\ NoLostUpdate

\* in every step: the counter changes by exactly 1, and it changes exactly
\* when the counter update of a request that stored goes through
C28_CountingStep ==
  /\ UsageCount' \in { UsageCount, UsageCount + 1 }
  /\ UsageCount' = UsageCount + 1 <=>
       \E r \in InFlight :
         /\ Stored(r) /\ pc[r] = "increment" /\ pc'[r] = "done"
         /\ response'[r].awaited = "ok"

StatsAnswered(r) == IsStats(r) /\ pc[r] = "done"

C29_ConsistentView ==
  \A r \in InFlight :
    StatsAnswered(r) =>
      LET view == res[r] IN
        /\ view.status = 200
        /\ view.limit = 100
        /\ view.remaining =
             (IF view.limit - view.current > 0
              THEN view.limit - view.current ELSE 0)
        /\ view.remaining >= 0
        /\ view.limitReached <=> view.current >= view.limit
        /\ view.limitReached <=> view.remaining = 0
        /\ response[r].awaited = "error" =>
             /\ ~view.limitReached /\ view.current = 0
             /\ view.remaining = view.limit
        /\ response[r].awaited = "ok" =>
             /\ view.current = response[r].usage.totalEstimates
             /\ view.current <= UsageCount

\* the counter has passed the limit and usage-stats reports it
C29_Witness ==
  \E r \in InFlight :
    /\ StatsAnswered(r)
    /\ res[r].current = 101
    /\ res[r].limitReached /\ res[r].remaining = 0

(***************************************************************************)
(* Places whose rating and user_ratings_total are any JSON value.  The     *)
(* handlers read them with `place.rating || 0`, compare them with `>=`,    *)
(* divide them and add 1 to them; on values that are not numbers these     *)
(* operators coerce (ToBoolean, ToNumber, string concatenation).  The      *)
(* contractor keeps the value as the code holds it; scores are JavaScript  *)
(* numbers, NaN included.                                                  *)
(***************************************************************************)
\* `place.f || 0`
OrZeroJs(place, f) ==
  IF IsTruthy(Field(place, f)) THEN place[f] ELSE JsNumber(0, 0)

\* `x >= y`: both sides go through ToNumber, and a comparison with NaN is
\* false
GreaterOrEqual(x, y) ==
  LET nx == ToNumber(x)
      ny == ToNumber(y)
  IN  nx.t = "number" /\ ny.t = "number" /\ MicroOf(nx) >= MicroOf(ny)

\* `rating >= minRating && reviews >= minReviews` after `|| 0`; the rating
\* thresholds of the model are in tenths
NoisyPassesTier(place, minRating, minReviews) ==
  /\ GreaterOrEqual(OrZeroJs(place, "rating"), Hundredths(minRating * 10))
  /\ GreaterOrEqual(OrZeroJs(place, "user_ratings_total"),
                    JsNumber(minReviews, 0))

\* part_003 2326-2330: hasRating && hasReviews
NoisyPassesThird(place) ==
  /\ IsTruthy(Field(place, "rating"))
  /\ GreaterOrEqual(place.rating, Hundredths(THIRD_MIN_RATING * 10))
  /\ IsTruthy(Field(place, "user_ratings_total"))
  /\ GreaterOrEqual(place.user_ratings_total, JsNumber(THIRD_MIN_REVIEWS, 0))

\* part_003 2351
NoisyPassesThirdRelaxed(place) ==
  /\ IsTruthy(Field(place, "rating"))
  /\ GreaterOrEqual(place.rating, Hundredths(THIRD_RELAXED_RATING * 10))

\* results.filter(...) with the callback of handler v and tier
NoisyFilter(v, relaxed, results) ==
  SelectSeq(results,
    LAMBDA place :
      CASE v = "server" ->
             NoisyPassesTier(place, MINIMUM_RATING, MINIMUM_REVIEWS)
        [] v = "part002" ->
             IF relaxed
             THEN NoisyPassesTier(place, RELAXED_MIN_RATING,
                                  RELAXED_MIN_REVIEWS)
             ELSE NoisyPassesTier(place, MIN_RATING, MIN_REVIEWS)
        [] v = "part003c" ->
             IF relaxed THEN NoisyPassesThirdRelaxed(place)
             ELSE NoisyPassesThird(place)
        [] OTHER ->
             IF relaxed
             THEN NoisyPassesTier(place, RELAXED_MIN_RATING,
                                  RELAXED_MIN_REVIEWS)
             ELSE NoisyPassesTier(place, STRICT_MIN_RATING,
                                  STRICT_MIN_REVIEWS))

\* the .map callback of handler v: `rating: place.rating || 0,
\* totalReviews: place.user_ratings_total || 0`, the rest as MapServer,
\* MapPart002, MapTagged and MapThird
NoisyMap(v, place, qv) ==
  [ rating       |-> OrZeroJs(place, "rating"),
    totalReviews |-> OrZeroJs(place, "user_ratings_total") ]
    @@ (CASE v = "server"   -> MapServer(place)
          [] v = "part002"  -> MapPart002(place, qv)
          [] v = "part003c" -> MapThird(place)
          [] OTHER          -> MapTagged(place, qv))

\* the contractors handed to scoring and the `filters` of the response
NoisySelectTier(v, results) ==
  LET first   == NoisyFilter(v, FALSE, results)
      relaxed == NoisyFilter(v, TRUE, results)
      plain   == SelectTier(v, << >>)
      NoisyMapAll(w, places, qv) ==
        [ i \in 1..Len(places) |-> NoisyMap(w, places[i], qv) ]
  IN  CASE v = "server" ->
             [ contractors |->
                 IF Len(first) >= MIN_ACCEPTABLE
                 THEN NoisyMapAll(v, first, TRUE)
                 ELSE NoisyMapAll(v, Slice0(results, 5), TRUE),
               qualityFiltered |-> Len(first),
               filters |-> plain.filters ]
        [] v = "part002" ->
             IF Len(first) = 0
             THEN [ contractors |-> NoisyMapAll(v, relaxed, FALSE),
                    filters |-> [ minimumRating  |-> RELAXED_MIN_RATING,
                                  minimumReviews |-> RELAXED_MIN_REVIEWS,
                                  relaxed        |-> TRUE ] ]
             ELSE [ contractors |-> NoisyMapAll(v, first, TRUE),
                    filters |-> [ minimumRating  |-> MIN_RATING,
                                  minimumReviews |-> MIN_REVIEWS,
                                  relaxed        |-> FALSE ] ]
        [] v = "part003c" ->
             IF Len(first) < MIN_ACCEPTABLE
             THEN [ contractors |-> NoisyMapAll(v, relaxed, FALSE),
                    filters |-> [ relaxed |-> TRUE ] ]
             ELSE [ contractors |-> NoisyMapAll(v, first, TRUE),
                    filters |-> [ relaxed |-> FALSE ] ]
        [] OTHER ->
             IF Len(first) < MIN_ACCEPTABLE
             THEN [ contractors |-> NoisyMapAll(v, relaxed, FALSE),
                    filters |-> [ minimumRating  |-> RELAXED_MIN_RATING,
                                  minimumReviews |-> RELAXED_MIN_REVIEWS,
                                  relaxed        |-> TRUE ] ]
             ELSE [ contractors |-> NoisyMapAll(v, first, TRUE),
                    filters |-> [ minimumRating  |-> STRICT_MIN_RATING,
                                  minimumReviews |-> STRICT_MIN_REVIEWS,
                                  relaxed        |-> FALSE ] ]

\* (contractor.rating / 5) * 35: the division applies ToNumber
NoisyRatingScore(contractor) ==
  LET n == ToNumber(contractor.rating)
  IN  IF n.t = "number" THEN FromMicro(MicroOf(n) * 7) ELSE NaN

\* Math.min(Math.log10(contractor.totalReviews + 1) / 2, 1) * 25: `+ 1`
\* concatenates when totalReviews is a string, Math.log10 applies ToNumber,
\* and Math.min of NaN is NaN.  The counts drawn are whole numbers.
NoisyReviewScore(contractor) ==
  LET n == ToNumber(JsPlus(contractor.totalReviews, JsNumber(1, 0)))
  IN  IF n.t = "number"
      THEN FromMicro((Min(Log10Micro(n.whole), 2 * Micro) * 25) \div 2)
      ELSE NaN

\* Math.round(score) after the five `score +=`: NaN once a term is NaN
NoisyMatchScore(contractor, searchQuery) ==
  LET ratingScore == NoisyRatingScore(contractor)
      reviewScore == NoisyReviewScore(contractor)
  IN  IF ratingScore = NaN \/ reviewScore = NaN THEN NaN
      ELSE JsNumber(MathRound(MicroOf(ratingScore) + MicroOf(reviewScore)
                      + RelevanceScore(contractor, searchQuery)
                      + ActiveScore(contractor)
                      + ProfessionalScore(contractor)), 0)

\* { ...contractor, matchScore, scoreBreakdown }; breakdown.rating and
\* breakdown.reviews are toFixed(1) texts, "NaN" for NaN
NoisyScore(contractor, searchQuery) ==
  LET toFixed1(x) ==
        IF x = NaN THEN Str("NaN")
        ELSE LET tenths == ToFixed1(MicroOf(x))
             IN  Str(NatToString(tenths \div 10) \o "." \o Digit(tenths % 10))
  IN  contractor
        @@ ("matchScore" :> NoisyMatchScore(contractor, searchQuery))
        @@ ("scoreBreakdown" :>
              [ rating  |-> toFixed1(NoisyRatingScore(contractor)),
                reviews |-> toFixed1(NoisyReviewScore(contractor)) ])

\* sort((a, b) => b.matchScore - a.matchScore): a comparator value of NaN
\* counts as 0, the two elements keep their order
RECURSIVE NoisyInsertByScore(_, _)
NoisyInsertByScore(sorted, c) ==
  IF sorted = << >> THEN << c >>
  ELSE IF /\ c.matchScore # NaN /\ Head(sorted).matchScore # NaN
          /\ c.matchScore.whole > Head(sorted).matchScore.whole
       THEN << c >> \o sorted
       ELSE << Head(sorted) >> \o NoisyInsertByScore(Tail(sorted), c)

RECURSIVE NoisySortByScore(_)
NoisySortByScore(s) ==
  IF s = << >> THEN << >>
  ELSE NoisyInsertByScore(NoisySortByScore(SubSeq(s, 1, Len(s) - 1)),
                          s[Len(s)])

\* res.json({ contractors: scoredContractors.slice(0, 5), ... })
NoisyRankResponse(v, results, jobType) ==
  LET tier == NoisySelectTier(v, results)
      searchQuery == SearchQuery(v, jobType)
      scored == [ i \in 1..Len(tier.contractors) |->
                    NoisyScore(tier.contractors[i], searchQuery) ]
  IN  [ status      |-> 200,
        contractors |-> Slice0(NoisySortByScore(scored), TOP_N),
        totalFound  |-> Len(results),
        filters     |-> tier.filters ]
      @@ Copy(tier, "qualityFiltered", "qualityFiltered")

NoisyRespond(v, reply, jobType) ==
  IF StatusRejected(v, reply) THEN ErrorResponse(500)
  ELSE IF v = "part003c" /\ Len(reply.results) = 0 THEN EmptyResponse
  ELSE NoisyRankResponse(v, reply.results, jobType)

\* what the places search yields here: one place whose rating and
\* user_ratings_total are any JSON value, alone or next to a place rated
\* 3.6 by 4 reviews
NoisyPlacesReplies ==
  LET ratings ==
        { NoFields }
          \cup { [ rating |-> x ] :
                   x \in { JsNull, JsNumber(0, 0), Hundredths(360),
                           Hundredths(480), Str(""), Str("4.8"),
                           Str("high") } }
      reviews ==
        { NoFields }
          \cup { [ user_ratings_total |-> x ] :
                   x \in { JsNull, JsNumber(0, 0), JsNumber(4, 0),
                           JsNumber(50, 0), Str("50"), Str("many") } }
      places ==
        { [ name |-> "Acme Painters", types |-> << "painter" >>,
            website |-> "https://acme.example",
            formatted_phone_number |-> "01225 000000",
            opening_hours |-> [ open_now |-> TRUE ] ] @@ r @@ u :
            r \in ratings, u \in reviews }
      other ==
        [ name |-> "Bob's Decor", types |-> << "painter" >>,
          rating |-> Hundredths(360), user_ratings_total |-> JsNumber(4, 0),
          opening_hours |-> [ open_now |-> FALSE ] ]
      lists ==
        { << p >> : p \in places }
          \cup { << p, other >> : p \in places }
          \cup { << other, p >> : p \in places }
  IN  { [ status |-> "OK", results |-> WithIds(l) ] : l \in lists }
        \cup { [ status |-> "ZERO_RESULTS", results |-> << >> ],
               [ status |-> "throw", results |-> << >> ] }

\* the continuation after the places search, as PlacesReturn
NoisyPlacesReturn ==
  /\ pc = "places"
  /\ \E reply \in NoisyPlacesReplies :
       IF reply.status = "throw"
       THEN /\ res' = ErrorResponse(500)
            /\ UNCHANGED << searchResults, response >>
       ELSE LET after == StoreThenRead(variant, searchResults, reply)
            IN  /\ searchResults' = after.searchResults
                /\ response' = after.response
                /\ res' = NoisyRespond(variant, after.response, req.jobType)
  /\ pc' = "done"
  /\ UNCHANGED << variant, req,
                  dailyUsage, estimates >>

NoisyNext ==
  \/ \E j \in ListJobTypes \cup { "" }, l \in Locations : Request(j, l)
  \/ \E g \in GeocodeReplies : GeocodeReturn(g)
  \/ NoisyPlacesReturn

NoisySpec == Init /\ [][NoisyNext]_vars

(***************************************************************************)
(* C21.  A candidate whose rating or reviewCount is missing or non-numeric *)
(* is treated as having the default value 0 for that field in filtering    *)
(* and scoring: the handler answers what it answers for the same places    *)
(* with these fields set to 0, ranking never raises an error, and every    *)
(* matchScore is a number.                                                 *)
(***************************************************************************)
\* the field as the statement reads it: the number itself, 0 otherwise
NumberOrZero(place, f) ==
  IF Field(place, f).t = "number" THEN place[f] ELSE JsNumber(0, 0)

WithDefaults(places) ==
  [ i \in 1..Len(places) |->
      [ rating |-> NumberOrZero(places[i], "rating"),
        user_ratings_total |-> NumberOrZero(places[i], "user_ratings_total") ]
        @@ places[i] ]

\* what a response says of its ranking: who is returned, in which order,
\* with which score, under which filters
RankingOf(answer) ==
  [ contractors |->
      [ i \in 1..Len(answer.contractors) |->
          [ placeId    |-> answer.contractors[i].placeId,
            matchScore |-> answer.contractors[i].matchScore ] ],
    filters |-> answer.filters ]

NoisyAnswered == pc = "done" /\ response.status \in { "OK", "ZERO_RESULTS" }

C21_AsStated ==
  NoisyAnswered =>
    /\ res.status = 200
    /\ \A i \in 1..Len(res.contractors) :
         res.contractors[i].matchScore.t = "number"
    /\ RankingOf(res)
         = RankingOf(NoisyRespond(variant,
                                  [ status |-> response.status,
                                    results |-> WithDefaults(response.results) ],
                                  req.jobType))

====
